---- MODULE Spec2Model ----
(***************************************************************************)
(* Model of the action-execution subsystem of the superwizard browser      *)
(* extension: the orchestrator loop (state/currentTask.ts), the Action     *)
(* Gateway (general/dom/ScriptingMode.ts) and the Action State Tracker     *)
(* (actionStateManager).                                                   *)
(*                                                                         *)
(* Granularity: one action of the model is one macrotask of the extension  *)
(* host, i.e. the code that runs between two awaits that really suspend    *)
(* (a chrome API round trip, a network call, a timer).  An await on an     *)
(* already settled promise does not let another macrotask in, so the code  *)
(* after it belongs to the same action.                                    *)
(***************************************************************************)
EXTENDS Integers, Sequences, FiniteSets, TLC

\* ---------------------------------------------------------------- bounds
MaxRuns == 2
MaxActions == 4

\* ------------------------------------------------------ program constants
MAX_CONSECUTIVE_FAILURES == 3

Runs == 1..MaxRuns
ActionIds == 1..MaxActions
ActionNames == {"click", "setValue", "navigate", "waiting"}
NoAction == 0
\* Error strings are sequences of their parts; the absent error is empty.
NoError == <<>>
NoCall == [id |-> NoAction, type |-> "none", cont |-> "none"]
NoResult == [success |-> FALSE, error |-> NoError, actionId |-> NoAction, set |-> FALSE]
NoReturn == [id |-> NoAction, success |-> FALSE, error |-> NoError,
             exec |-> "none", threw |-> FALSE]

\* What the executor (click, setValue, navigate, waiting) can do: resolve or
\* throw.
ExecOutcomes == {"resolved", "threw"}
\* The message of the error an executor throws
ExecError == <<"executor error">>

\* What the planner and the parser can hand to the loop.
PlannerAnswers == {"null", "parseError", "finish", "fail", "respond", "memory"}
                    \cup ActionNames

VARIABLES
  status,               \* currentTask.status
  consecutiveFailures,  \* currentTask.consecutiveFailures
  lastActionResult,     \* currentTask.lastActionResult
  pc,                   \* position of every runTask invocation
  call,                 \* the callDOMAction invocation a run is awaiting
  actionStates,         \* ActionStateManager.actionStates
  activeAction,         \* ActionStateManager.activeAction
  nextId,               \* next fresh action id
  finished,             \* per id: number of completeAction/failAction calls
  returned,             \* what the last callDOMAction invocation returned
  hitCap,               \* per run: it recorded the failure that reached the cap
  runLog,               \* per run: the actions it saw fail in a row, and whether
                        \* it halted on the failure cap
  parsed,               \* per run: the action it parsed in the step before ("none" otherwise)
  stopLog,              \* for each run: interrupted or not, and what it did afterwards
  \* --- Stability Monitor (core/stability.ts)
  clock,                \* Date.now(), in ms
  stabPc,               \* position of the ensurePageStability call
  lastStabilityCheck,   \* module variable lastStabilityCheck
  lastStabilityResult,  \* module variable lastStabilityResult
  callNow,              \* ensurePageStability: now
  startTime,            \* checkPageLoadingAndStability: startTime
  lastStableTime,       \* checkPageLoadingAndStability: lastStableTime
  consistentStableChecks, \* checkPageLoadingAndStability: consistentStableChecks
  prevStable,           \* checkPageLoadingAndStability: lastStabilityResult?.isStable
  stabReturn,           \* how and when the last ensurePageStability call returned
  stabCalls,            \* number of ensurePageStability calls so far
  streak,               \* the stable polls in a row up to now, and when the first was
  \* --- Click executor (actions/click.ts)
  clickPc,              \* position of the click call
  operationContext,     \* click: operationContext
  useBackupMethod,      \* click: useBackupMethod
  scrollResult,         \* click: scrollResult
  retryCount,           \* click: retryCount of the coordinate loop
  stableCoordinates,    \* click: stableCoordinates
  clickLog,             \* what the call did: visibility seen, primary, backup, outcome
  \* --- Scroll engine (scroll.ts)
  scrollPc,             \* position of the scrollIntoView call
  attempt,              \* scrollIntoView: attempt
  bestResult,           \* scrollIntoView: bestResult
  anyProgressMade,      \* scrollIntoView: anyProgressMade
  scrollReturn,         \* what the call returned, and the element's box at that moment
  scrollLog,            \* the call so far: its sleeps, attempts and last-resort attempts
  \* --- Coordinate engine (getCenterCoordinates)
  coordPc,              \* position of the getCenterCoordinates call
  attempts,             \* getCenterCoordinates: attempts
  coordLastError,       \* getCenterCoordinates: lastError
  lastRect,             \* getCenterCoordinates: lastRect
  elementFound,         \* getCenterCoordinates: elementFound
  attemptsMade,         \* passes of the loop begun in this call
  coordReturn,          \* what the call returned or that it threw
  \* --- SetValue executor (actions/setValue.ts)
  svPc,                 \* position of the setValue call ("idle" before it)
  svElapsed,            \* ms since setValue was called
  svValue,              \* setValue: processedValue, a sequence of characters
  svElement,            \* the target element as the page has it
  svContext,            \* setValue: operationContext, and the outcome of the direct focus
  svTimers,             \* pending setTimeout timers, of the page and of the extension
  svPage,               \* what the scripts did in the page
  svReturn,             \* how and when the setValue promise settled
  \* --- navigate (actions/setValue.ts)
  navPc,                \* "idle" before navigate is called, "called" after
  navElapsed,           \* ms since navigate was called
  navContext,           \* navigate: operationContext, and whether tabs.get is awaited
  navListener,          \* whether the onUpdated listener is registered
  navTimers,            \* pending setTimeout timers of navigate
  navUpdate,            \* the callback of chrome.tabs.update
  navTab,               \* the tab as the browser has it
  navOutcome,           \* how and when the promise of navigate settled
  navLog,               \* what happened during the call
  \* --- Action State Tracker on its own (core/element.ts)
  tkStates,             \* ActionStateManager.actionStates
  tkEndTime,            \* endTime of each ActionState (0: not set)
  tkActive,             \* ActionStateManager.activeAction
  tkCallbacks,          \* ActionStateManager.completionCallbacks
  tkClock,              \* Date.now() of the latest completeAction or failAction
  tkGateway,            \* callDOMAction: its latest id and position, and whether the
                        \* tracker has been called from elsewhere
  tkLog,                \* registrations and invocations of the callbacks
  tkWait,               \* the waitForAllActions call: its position and what it saw
  \* --- element resolution (core/element.ts, pages/Content/getAnnotatedDOM.ts)
  rsPage,               \* the elements of the live document, in document order
  rsAttr,               \* the NODE_ID_SELECTOR attribute of every element object
  currentElements,      \* getAnnotatedDOM.ts: the table of the latest annotation pass
  rsNextNode,           \* the next element object the page creates
  rsNextUid,            \* the next value Math.random gives
  rsFirst,              \* per id: the uniqueId of its first resolution since the pass
  rsLast,               \* the latest call of getElementByNodeId and what it returned
  \* --- waiting (actions/waiting.ts)
  wtPc,                 \* "idle", or "waiting" while the timer of waiting is pending
  wtSeconds,            \* payload.seconds of the latest call
  wtElapsed,            \* ms since the latest call
  wtTimer,              \* the delay of the pending setTimeout, in ms
  wtReturn,             \* how and when the promise of the latest call settled
  \* --- the injected mutation observer (core/stability.ts)
  mutationCount,        \* mutationCount, also window.__superwizard_mutation_count
  resetTimer,           \* ms until the pending resetTimer fires (NoTimer: none)
  moBatches,            \* how many significant mutation batches the page produced
  moQuiescent,          \* whether the page has stopped mutating
  moReported,           \* what the latest poll made of the counter
  \* --- the tab an operation targets (browser/pageRPC.ts, core/element.ts)
  tabId,                \* currentTask.tabId
  activeTab,            \* the active tab of the current window
  tgPc,                 \* where the action under way is
  tgLog                 \* the tabs the operations of the action went to

orchVars == <<status, consecutiveFailures, lastActionResult, pc, call,
              actionStates, activeAction, nextId, finished, returned, hitCap, parsed,
                 stopLog, runLog>>
stabVars == <<clock, stabPc, lastStabilityCheck, lastStabilityResult, callNow,
              startTime, lastStableTime, consistentStableChecks, prevStable,
              stabReturn, stabCalls, streak>>
clickVars == <<clickPc, operationContext, useBackupMethod, scrollResult, retryCount,
               stableCoordinates, clickLog>>
scrollVars == <<scrollPc, attempt, bestResult, anyProgressMade, scrollReturn, scrollLog>>
coordVars == <<coordPc, attempts, coordLastError, lastRect, elementFound, attemptsMade,
               coordReturn>>
svVars == <<svPc, svElapsed, svValue, svElement, svContext, svTimers, svPage, svReturn>>
navVars == <<navPc, navElapsed, navContext, navListener, navTimers, navUpdate, navTab,
             navOutcome, navLog>>
tkVars == <<tkStates, tkEndTime, tkActive, tkCallbacks, tkClock, tkGateway, tkLog,
            tkWait>>
rsVars == <<rsPage, rsAttr, currentElements, rsNextNode, rsNextUid, rsFirst, rsLast>>
wtVars == <<wtPc, wtSeconds, wtElapsed, wtTimer, wtReturn>>
moVars == <<mutationCount, resetTimer, moBatches, moQuiescent, moReported>>
tgVars == <<tabId, activeTab, tgPc, tgLog>>
vars == <<orchVars, stabVars, clickVars, scrollVars, coordVars, svVars, navVars, tkVars,
          rsVars, wtVars, moVars, tgVars>>
\* What the actions of one component leave alone
nonOrchVars == <<stabVars, clickVars, scrollVars, coordVars, svVars, navVars,
     tkVars, rsVars, wtVars, moVars, tgVars>>
nonStabVars == <<orchVars, clickVars, scrollVars, coordVars, svVars, navVars,
     tkVars, rsVars, wtVars, moVars, tgVars>>
nonClickVars == <<orchVars, stabVars, scrollVars, coordVars, svVars, navVars,
     tkVars, rsVars, wtVars, moVars, tgVars>>
nonScrollVars == <<orchVars, stabVars, clickVars, coordVars, svVars, navVars,
     tkVars, rsVars, wtVars, moVars, tgVars>>
nonCoordVars == <<orchVars, stabVars, clickVars, scrollVars, svVars, navVars,
     tkVars, rsVars, wtVars, moVars, tgVars>>
nonSvVars == <<orchVars, stabVars, clickVars, scrollVars, coordVars, navVars,
     tkVars, rsVars, wtVars, moVars, tgVars>>
nonNavVars == <<orchVars, stabVars, clickVars, scrollVars, coordVars, svVars, tkVars,
     rsVars, wtVars, moVars, tgVars>>
nonTkVars == <<orchVars, stabVars, clickVars, scrollVars, coordVars, svVars, navVars,
     rsVars, wtVars, moVars, tgVars>>
nonRsVars == <<orchVars, stabVars, clickVars, scrollVars, coordVars, svVars, navVars,
     tkVars, wtVars, moVars, tgVars>>
nonWtVars == <<orchVars, stabVars, clickVars, scrollVars, coordVars, svVars, navVars,
     tkVars, rsVars, moVars, tgVars>>
nonMoVars == <<orchVars, stabVars, clickVars, scrollVars, coordVars, svVars, navVars,
     tkVars, rsVars, wtVars, tgVars>>
nonTgVars == <<orchVars, stabVars, clickVars, scrollVars, coordVars, svVars, navVars,
     tkVars, rsVars, wtVars, moVars>>

\* ------------------------------------------------- Action State Tracker

IsActiveStatus(s) == s \in {"pending", "in-progress"}

\* ActionStateManager.hasActiveAction
HasActiveActionOf(active) == active # NoAction
HasActiveAction == HasActiveActionOf(activeAction)

\* ActionStateManager.startAction: the new state and the active slot
StartActionStates(states, id) ==
  [states EXCEPT ![id] = [status |-> "pending", error |-> NoError]]
StartActionActive(active, id) == id

\* ActionStateManager.setActionInProgress
SetActionInProgress(states, id) ==
  IF states[id].status # "none"
    THEN [states EXCEPT ![id].status = "in-progress"]
    ELSE states

\* ActionStateManager.completeAction
CompleteActionStates(states, id) ==
  IF states[id].status # "none"
    THEN [states EXCEPT ![id].status = "completed"]
    ELSE states
\* ActionStateManager.failAction
FailActionStates(states, id, error) ==
  IF states[id].status # "none"
    THEN [states EXCEPT ![id] = [status |-> "failed", error |-> error]]
    ELSE states
\* completeAction / failAction: "Clear active action if this was it"
ClearActive(states, active, id) ==
  IF states[id].status # "none" /\ active = id THEN NoAction ELSE active

\* ------------------------------------------------------- Action Gateway

\* The consolidated error string of callDOMAction's catch block: the prefix
\* (action type, duration, tab, domain, parameters, browser) followed by the
\* message of the error that was caught.
BuildErrorMessage(orig) == <<"DOM Action failed">> \o orig

\* ---------------------------------------------------------- orchestrator

\* wasStopped()
WasStopped(st) == st # "running"

\* Top of the while loop of runTask for the given values of the task status,
\* the failure counter and the tracker's active slot: where the run goes ...
LoopTopPc(st, cf, active) ==
  IF WasStopped(st) THEN "done"
  ELSE IF cf >= MAX_CONSECUTIVE_FAILURES THEN "done"
  ELSE IF HasActiveActionOf(active) THEN "waitPrev"
  ELSE "pulling"
\* ... and what it leaves in the task status.
LoopTopStatus(st, cf) ==
  IF ~WasStopped(st) /\ cf >= MAX_CONSECUTIVE_FAILURES THEN "error" ELSE st

\* The cap check at the top of the loop, lines 188-201: whether it halts the run
HaltsOnCap(st, cf) == ~WasStopped(st) /\ cf >= MAX_CONSECUTIVE_FAILURES

NewRunLog == [failed |-> 0, haltedOnCap |-> FALSE]
\* The log of a run that passes the top of the loop
LogLoopTop(log, st, cf) == [log EXCEPT !.haltedOnCap = HaltsOnCap(st, cf)]
\* The log of a run that handled an ActionResult
LogResult(log, res) ==
  [log EXCEPT !.failed = IF res.success THEN 0
                         ELSE IF @ >= MAX_CONSECUTIVE_FAILURES THEN @ ELSE @ + 1]

NotStopped == [stopped |-> FALSE, inFlight |-> NoAction, dispatched |-> FALSE,
               stored |-> FALSE]

OrchInit ==
  /\ status = "idle"
  /\ consecutiveFailures = 0
  /\ lastActionResult = NoResult
  /\ pc = [r \in Runs |-> "new"]
  /\ call = [r \in Runs |-> NoCall]
  /\ actionStates = [i \in ActionIds |-> [status |-> "none", error |-> NoError]]
  /\ activeAction = NoAction
  /\ nextId = 1
  /\ finished = [i \in ActionIds |-> 0]
  /\ returned = NoReturn
  /\ hitCap = [r \in Runs |-> FALSE]
  /\ parsed = [r \in Runs |-> "none"]
  /\ stopLog = [r \in Runs |-> NotStopped]
  /\ runLog = [r \in Runs |-> NewRunLog]

\* runTask, up to its first await (chrome.tabs.query)
RunTask(r) ==
  /\ pc[r] = "new"
  /\ \A q \in Runs : q < r => pc[q] # "new"
  /\ status # "running"
  /\ status' = "running"
  /\ pc' = [pc EXCEPT ![r] = "setup"]
  /\ UNCHANGED <<consecutiveFailures, lastActionResult, call, actionStates,
                 activeAction, nextId, finished, returned, hitCap, parsed,
                 stopLog, runLog>>
  /\ UNCHANGED nonOrchVars

\* callDOMAction, up to its first await: the id is drawn and startAction runs
BeginCall(r, type, cont) ==
  /\ nextId <= MaxActions
  /\ call' = [call EXCEPT ![r] = [id |-> nextId, type |-> type, cont |-> cont]]
  /\ actionStates' = StartActionStates(actionStates, nextId)
  /\ activeAction' = StartActionActive(activeAction, nextId)
  /\ nextId' = nextId + 1
  /\ pc' = [pc EXCEPT ![r] = "ctx"]
  /\ stopLog' = [stopLog EXCEPT ![r].dispatched = @ \/ stopLog[r].stopped]

\* runTask after chrome.tabs.query answered: no tab id, a restricted URL (the
\* redirect to google.com through callDOMAction), or an ordinary tab
Setup(r) ==
  /\ pc[r] = "setup"
  /\ \E tab \in {"noId", "restricted", "ok"} :
       IF tab = "noId"
         THEN /\ status' = "error"
              /\ pc' = [pc EXCEPT ![r] = "done"]
              /\ UNCHANGED <<call, actionStates, activeAction, nextId, stopLog>>
         ELSE IF tab = "restricted"
           THEN /\ BeginCall(r, "navigate", "redirect")
                /\ UNCHANGED status
           ELSE /\ pc' = [pc EXCEPT ![r] = "ping"]
                /\ UNCHANGED <<status, call, actionStates, activeAction, nextId,
                               stopLog>>
  /\ UNCHANGED <<consecutiveFailures, lastActionResult, finished, returned, hitCap, parsed,
                 runLog>>
  /\ UNCHANGED nonOrchVars

\* runTask after the content script answered PING (or was injected): the
\* first pass through the top of the loop; a failed injection is caught by
\* the outer catch
Ping(r) ==
  /\ pc[r] = "ping"
  /\ \E injected \in BOOLEAN :
       IF injected
         THEN /\ status' = LoopTopStatus(status, consecutiveFailures)
              /\ pc' = [pc EXCEPT ![r] =
                          LoopTopPc(status, consecutiveFailures, activeAction)]
              /\ runLog' = [runLog EXCEPT ![r] =
                              LogLoopTop(@, status, consecutiveFailures)]
         ELSE /\ status' = "error"
              /\ pc' = [pc EXCEPT ![r] = "done"]
              /\ UNCHANGED runLog
  /\ UNCHANGED <<consecutiveFailures, lastActionResult, call, actionStates,
                 activeAction, nextId, finished, returned, hitCap, parsed,
                 stopLog>>
  /\ UNCHANGED nonOrchVars

\* waitForActionCompletion at the top of the loop: polls every 50 ms until no
\* action is active, then goes on to ensurePageStability and getSimplifiedDom
WaitPrev(r) ==
  /\ pc[r] = "waitPrev"
  /\ ~HasActiveAction
  /\ pc' = [pc EXCEPT ![r] = "pulling"]
  /\ UNCHANGED <<status, consecutiveFailures, lastActionResult, call,
                 actionStates, activeAction, nextId, finished, returned, hitCap,
                 stopLog, runLog>>
  /\ parsed' = [parsed EXCEPT ![r] = "none"]
  /\ UNCHANGED nonOrchVars

\* runTask after ensurePageStability and getSimplifiedDom: stopped, or an
\* exception of the DOM pull (outer catch), or on to determineNextAction
Pulled(r) ==
  /\ pc[r] = "pulling"
  /\ \E domOk \in BOOLEAN :
       IF ~domOk
         THEN /\ status' = "error"
              /\ pc' = [pc EXCEPT ![r] = "done"]
         ELSE /\ pc' = [pc EXCEPT ![r] =
                          IF WasStopped(status) THEN "done" ELSE "planning"]
              /\ UNCHANGED status
  /\ UNCHANGED <<consecutiveFailures, lastActionResult, call, actionStates,
                 activeAction, nextId, finished, returned, hitCap,
                 stopLog, runLog>>
  /\ parsed' = [parsed EXCEPT ![r] = "none"]
  /\ UNCHANGED nonOrchVars

\* runTask, lines 292-299: the task status a finish, fail or respond leaves
TerminalStatus_AllIdle(name) == "idle"
TerminalStatus(name) ==
  IF name = "finish" THEN "success" ELSE IF name = "fail" THEN "error" ELSE "idle"

\* runTask, lines 250-290: the name of the parsed action, when the run gets
\* as far as parsing one
ParsedName(st, ans) ==
  IF ans \in {"null", "parseError"} \/ WasStopped(st) THEN "none" ELSE ans

\* runTask after determineNextAction answered, up to the next await
Planned(r) ==
  /\ pc[r] = "planning"
  /\ \E ans \in PlannerAnswers :
       /\ parsed' = [parsed EXCEPT ![r] = ParsedName(status, ans)]
       /\ IF ans = "null"
            THEN /\ status' = "error"
                 /\ pc' = [pc EXCEPT ![r] = "done"]
                 /\ UNCHANGED <<call, actionStates, activeAction, nextId, stopLog>>
          ELSE IF WasStopped(status) \/ ans = "parseError"
            THEN /\ pc' = [pc EXCEPT ![r] = "done"]
                 /\ UNCHANGED <<status, call, actionStates, activeAction, nextId,
                                  stopLog>>
          ELSE IF ans \in {"finish", "fail", "respond"}
            THEN /\ status' = TerminalStatus(ans)
                 /\ pc' = [pc EXCEPT ![r] = "done"]
                 /\ UNCHANGED <<call, actionStates, activeAction, nextId, stopLog>>
          ELSE IF ans = "memory"
            THEN \* no action: waitForActionCompletion, then the next iteration
                 IF HasActiveAction
                   THEN /\ pc' = [pc EXCEPT ![r] = "waitAfter"]
                        /\ UNCHANGED <<status, call, actionStates, activeAction, nextId,
                                  stopLog>>
                   ELSE /\ status' = LoopTopStatus(status, consecutiveFailures)
                        /\ pc' = [pc EXCEPT ![r] =
                                    LoopTopPc(status, consecutiveFailures, activeAction)]
                        /\ UNCHANGED <<call, actionStates, activeAction, nextId, stopLog>>
          ELSE /\ BeginCall(r, ans, "loop")
               /\ UNCHANGED status
       /\ runLog' = [runLog EXCEPT ![r] =
                       IF ans = "memory" /\ ~WasStopped(status) /\ ~HasActiveAction
                         THEN LogLoopTop(@, status, consecutiveFailures) ELSE @]
  /\ UNCHANGED <<consecutiveFailures, lastActionResult, finished, returned, hitCap>>
  /\ UNCHANGED nonOrchVars

\* callDOMAction after the context gathering (tab URL, user agent) ended, with
\* or without a result: setActionInProgress, then the executor is started
CtxDone(r) ==
  /\ pc[r] = "ctx"
  /\ actionStates' = SetActionInProgress(actionStates, call[r].id)
  /\ pc' = [pc EXCEPT ![r] = "exec"]
  /\ UNCHANGED <<status, consecutiveFailures, lastActionResult, call, activeAction,
                 nextId, finished, returned, hitCap,
                 stopLog, runLog>>
  /\ parsed' = [parsed EXCEPT ![r] = "none"]
  /\ UNCHANGED nonOrchVars

\* The ActionResult callDOMAction returns for an executor outcome
ResultOf(c, outcome) ==
  IF outcome = "resolved"
    THEN [success |-> TRUE, error |-> NoError, actionId |-> c.id, set |-> TRUE]
    ELSE [success |-> FALSE, error |-> BuildErrorMessage(ExecError),
          actionId |-> c.id, set |-> TRUE]

\* Mutant: the catch block hands failAction the caught error's message instead
\* of the consolidated error string it returns
TrackerAfter_RawError(states, c, outcome) ==
  IF outcome = "resolved"
    THEN CompleteActionStates(states, c.id)
    ELSE FailActionStates(states, c.id, ExecError)

\* The tracker after callDOMAction recorded an executor outcome
TrackerAfter(states, c, outcome) ==
  IF outcome = "resolved"
    THEN CompleteActionStates(states, c.id)
    ELSE FailActionStates(states, c.id, BuildErrorMessage(ExecError))

\* consecutiveFailures after runTask handled an ActionResult
FailuresAfter(cf, res) == IF res.success THEN 0 ELSE cf + 1

\* The executor settled: callDOMAction records the outcome in the tracker and
\* returns; runTask (the loop, or the redirect of the set-up) goes on up to
\* its next await
ExecDone(r) ==
  /\ pc[r] = "exec"
  /\ \E outcome \in ExecOutcomes :
       LET c == call[r]
           res == ResultOf(c, outcome)
           active == ClearActive(actionStates, activeAction, c.id)
           cf == FailuresAfter(consecutiveFailures, res)
       IN /\ actionStates' = TrackerAfter(actionStates, c, outcome)
          /\ activeAction' = active
          /\ finished' = [finished EXCEPT ![c.id] = @ + 1]
          /\ returned' = [id |-> c.id, success |-> res.success, error |-> res.error,
                          exec |-> outcome, threw |-> FALSE]
          /\ call' = [call EXCEPT ![r] = NoCall]
          /\ IF c.cont = "redirect"
               THEN /\ pc' = [pc EXCEPT ![r] = "ping"]
                    /\ UNCHANGED <<status, consecutiveFailures, lastActionResult, hitCap,
                                   stopLog, runLog>>
               ELSE /\ lastActionResult' = res
                    /\ runLog' = [runLog EXCEPT ![r] =
                                    IF HasActiveActionOf(active) THEN LogResult(@, res)
                                    ELSE LogLoopTop(LogResult(@, res), status, cf)]
                    /\ consecutiveFailures' = cf
                    /\ stopLog' = [stopLog EXCEPT ![r].stored =
                                     @ \/ (stopLog[r].inFlight = c.id
                                             /\ (res # lastActionResult
                                                   \/ cf # consecutiveFailures))]
                    /\ hitCap' = [hitCap EXCEPT ![r] =
                                    @ \/ (~res.success /\ cf >= MAX_CONSECUTIVE_FAILURES)]
                    /\ IF HasActiveActionOf(active)
                         THEN /\ pc' = [pc EXCEPT ![r] = "waitAfter"]
                              /\ UNCHANGED status
                         ELSE /\ status' = LoopTopStatus(status, cf)
                              /\ pc' = [pc EXCEPT ![r] = LoopTopPc(status, cf, active)]
  /\ UNCHANGED <<nextId, parsed>>
  /\ UNCHANGED nonOrchVars

\* waitForActionCompletion after an action: polls every 50 ms until no action
\* is active; then the progress validation and the top of the loop
WaitAfter(r) ==
  /\ pc[r] = "waitAfter"
  /\ ~HasActiveAction
  /\ status' = LoopTopStatus(status, consecutiveFailures)
  /\ pc' = [pc EXCEPT ![r] = LoopTopPc(status, consecutiveFailures, activeAction)]
  /\ runLog' = [runLog EXCEPT ![r] = LogLoopTop(@, status, consecutiveFailures)]
  /\ UNCHANGED <<consecutiveFailures, lastActionResult, call, actionStates,
                 activeAction, nextId, finished, returned, hitCap,
                 stopLog>>
  /\ parsed' = [parsed EXCEPT ![r] = "none"]
  /\ UNCHANGED nonOrchVars

\* interrupt(); the log notes the runs it finds under way on a running task,
\* and the action each has in flight
Interrupt ==
  /\ status' = "idle"
  /\ stopLog' = [r \in Runs |->
                   IF status = "running" /\ pc[r] \notin {"new", "done"}
                     THEN [stopLog[r] EXCEPT
                             !.stopped = TRUE,
                             !.inFlight = IF pc[r] \in {"ctx", "exec"}
                                            THEN call[r].id ELSE @]
                     ELSE stopLog[r]]
  /\ UNCHANGED <<consecutiveFailures, lastActionResult, pc, call, actionStates,
                 activeAction, nextId, finished, returned, hitCap, parsed, runLog>>
  /\ UNCHANGED nonOrchVars

OrchNext ==
  \/ \E r \in Runs : RunTask(r)
  \/ \E r \in Runs : Setup(r)
  \/ \E r \in Runs : Ping(r)
  \/ \E r \in Runs : WaitPrev(r)
  \/ \E r \in Runs : Pulled(r)
  \/ \E r \in Runs : Planned(r)
  \/ \E r \in Runs : CtxDone(r)
  \/ \E r \in Runs : ExecDone(r)
  \/ \E r \in Runs : WaitAfter(r)
  \/ Interrupt

\* ---------------------------------------------------- Stability Monitor
\* (core/stability.ts).  Time is Date.now() in ms.  Script injection and
\* timers are taken as exact: a poll reads the page at the moment it starts
\* and setTimeout fires after exactly POLL_INTERVAL.

TIMEOUT == 2000
POLL_INTERVAL == 25
CONSISTENT_CHECKS_REQUIRED == 2
MIN_STABLE_TIME == 100
MAX_MUTATION_COUNT == 3
SKIP_STABILITY_THRESHOLD == 500
MAX_PENDING_TIMERS == 2

\* Date.now() when the model starts, and how long it is followed
StartClock == 1000
Horizon == 2100
MaxClock == StartClock + Horizon
\* How many calls of ensurePageStability are followed
MaxStabCalls == 2

\* What one injected poll can find in the page; injected = FALSE is an
\* executeScript that throws or brings no result back
StableSnapshot ==
  [injected |-> TRUE, ready |-> TRUE, fetch |-> 0, xhr |-> 0, loading |-> FALSE,
   mutations |-> MAX_MUTATION_COUNT, timers |-> MAX_PENDING_TIMERS]
Snapshots ==
  { StableSnapshot,
    [StableSnapshot EXCEPT !.injected = FALSE],
    [StableSnapshot EXCEPT !.ready = FALSE],
    [StableSnapshot EXCEPT !.fetch = 1],
    [StableSnapshot EXCEPT !.xhr = 1],
    [StableSnapshot EXCEPT !.loading = TRUE],
    [StableSnapshot EXCEPT !.mutations = MAX_MUTATION_COUNT + 1],
    [StableSnapshot EXCEPT !.timers = MAX_PENDING_TIMERS + 1],
    [StableSnapshot EXCEPT !.fetch = 1, !.mutations = MAX_MUTATION_COUNT + 1] }

\* The injected function of checkStability: result.isStable
IsStable(snap) ==
  /\ snap.ready
  /\ ~(snap.fetch > 0)
  /\ ~(snap.xhr > 0)
  /\ ~snap.loading
  /\ ~(snap.mutations > MAX_MUTATION_COUNT)
  /\ ~(snap.timers > MAX_PENDING_TIMERS)

NoStabReturn ==
  [how |-> "none", at |-> 0, began |-> 0, pending |-> 0, prev |-> 0, prevHow |-> "none"]
\* When the latest check before a new call produced its result (0: none did),
\* and how that check ended
PreviousResultAt(ret) == IF ret.how \in {"stable", "timeout"} THEN ret.at ELSE ret.prev
PreviousResultHow(ret) ==
  IF ret.how \in {"stable", "timeout"} THEN ret.how ELSE ret.prevHow
NoStreak == [polls |-> 0, since |-> 0]

StabInit ==
  /\ clock = StartClock
  /\ stabPc = "idle"
  /\ lastStabilityCheck = 0
  /\ lastStabilityResult = TRUE
  /\ callNow = 0
  /\ startTime = 0
  /\ lastStableTime = 0
  /\ consistentStableChecks = 0
  /\ prevStable = FALSE
  /\ stabReturn = NoStabReturn
  /\ stabCalls = 0
  /\ streak = NoStreak

\* ensurePageStability: whether the cached result lets the call return at once
SkipCheck(result, lastCheck, now) ==
  result /\ (now - lastCheck) < SKIP_STABILITY_THRESHOLD

\* ensurePageStability up to the first poll: the cache test, the monitoring
\* set-up (its failure is only logged) and the start of
\* checkPageLoadingAndStability
EnsurePageStability ==
  /\ stabPc = "idle"
  /\ stabCalls < MaxStabCalls
  /\ stabCalls' = stabCalls + 1
  /\ callNow' = clock
  /\ IF SkipCheck(lastStabilityResult, lastStabilityCheck, clock)
       THEN /\ stabReturn' = [how |-> "skipped", at |-> clock, began |-> clock,
                               pending |-> 0, prev |-> PreviousResultAt(stabReturn),
                               prevHow |-> PreviousResultHow(stabReturn)]
            /\ UNCHANGED <<stabPc, startTime, lastStableTime,
                           consistentStableChecks, prevStable, streak>>
       ELSE /\ stabPc' = "check"
            /\ startTime' = clock
            /\ lastStableTime' = 0
            /\ consistentStableChecks' = 0
            /\ prevStable' = FALSE
            /\ stabReturn' = [NoStabReturn EXCEPT !.began = clock,
                                                  !.prev = PreviousResultAt(stabReturn),
                                                  !.prevHow = PreviousResultHow(stabReturn)]
            /\ streak' = NoStreak
  /\ UNCHANGED <<clock, lastStabilityCheck, lastStabilityResult>>
  /\ UNCHANGED nonStabVars

\* checkStability: whether a poll declares the page stable
StabilityAchieved_NoMinTime(stable, checks, stableSince, now) ==
  /\ stable
  /\ checks >= CONSISTENT_CHECKS_REQUIRED
StabilityAchieved(stable, checks, stableSince, now) ==
  /\ stable
  /\ checks >= CONSISTENT_CHECKS_REQUIRED
  /\ (now - stableSince) >= MIN_STABLE_TIME

\* checkStability: whether this poll ends the wait
PollResolves(stable, checks, stableSince, now, start) ==
  \/ StabilityAchieved(stable, checks, stableSince, now)
  \/ (now - start) > TIMEOUT

\* checkStability: one poll of the page.  When it resolves,
\* ensurePageStability stores the cache and returns.
CheckStability ==
  /\ stabPc = "check"
  /\ \E snap \in Snapshots :
       IF ~snap.injected
         THEN \* catch: only the next poll is scheduled
              /\ stabPc' = "sleep"
              /\ UNCHANGED <<lastStabilityCheck, lastStabilityResult, lastStableTime,
                             consistentStableChecks, prevStable, stabReturn, streak>>
         ELSE LET stable == IsStable(snap)
                  checks == IF stable
                              THEN (IF prevStable THEN consistentStableChecks + 1 ELSE 1)
                              ELSE 0
                  since == IF stable /\ ~prevStable THEN clock ELSE lastStableTime
              IN /\ streak' = IF ~stable THEN NoStreak
                              ELSE IF streak.polls = 0 THEN [polls |-> 1, since |-> clock]
                              ELSE [streak EXCEPT !.polls = @ + 1]
                 /\ consistentStableChecks' = checks
                 /\ lastStableTime' = since
                 /\ IF PollResolves(stable, checks, since, clock, startTime)
                      THEN /\ stabPc' = "idle"
                           /\ lastStabilityCheck' = callNow
                           /\ lastStabilityResult' = TRUE
                           /\ stabReturn' = [how |-> IF StabilityAchieved(stable, checks,
                                                                          since, clock)
                                                       THEN "stable" ELSE "timeout",
                                             at |-> clock, began |-> callNow,
                                             pending |-> snap.fetch + snap.xhr,
                                             prev |-> stabReturn.prev,
                                             prevHow |-> stabReturn.prevHow]
                           /\ UNCHANGED prevStable
                      ELSE /\ stabPc' = "sleep"
                           /\ prevStable' = stable
                           /\ UNCHANGED <<lastStabilityCheck, lastStabilityResult,
                                          stabReturn>>
  /\ UNCHANGED <<clock, callNow, startTime, stabCalls>>
  /\ UNCHANGED nonStabVars

\* setTimeout(checkStability, POLL_INTERVAL)
PollTimer ==
  /\ stabPc = "sleep"
  /\ clock + POLL_INTERVAL <= MaxClock
  /\ clock' = clock + POLL_INTERVAL
  /\ stabPc' = "check"
  /\ UNCHANGED <<lastStabilityCheck, lastStabilityResult, callNow, startTime,
                 lastStableTime, consistentStableChecks, prevStable, stabReturn,
                 stabCalls, streak>>
  /\ UNCHANGED nonStabVars

StabNext ==
  \/ EnsurePageStability
  \/ CheckStability
  \/ PollTimer


\* ------------------------------------------------------- Click executor
\* (actions/click.ts).  scrollIntoView, getCenterCoordinates, executeScript
\* and getElementByNodeId are the callees; what they bring back is drawn
\* from what they can return.  initializeCursor, moveCursor and hideCursor
\* catch every error of their own (cursor.ts).

MAX_COORDINATE_RETRIES == 3
COORDINATE_STABILITY_THRESHOLD == 2

\* Results of scrollIntoView: success always comes with partialSuccess
ScrollResults ==
  { [success |-> TRUE, partialSuccess |-> TRUE],
    [success |-> FALSE, partialSuccess |-> TRUE],
    [success |-> FALSE, partialSuccess |-> FALSE] }
NoScrollResult == [success |-> FALSE, partialSuccess |-> FALSE]

\* Results of getCenterCoordinates; the first two are within the threshold
Coordinates == { [x |-> 100, y |-> 50], [x |-> 102, y |-> 50], [x |-> 110, y |-> 50] }
NoCoordinates == [x |-> 0 - 1, y |-> 0 - 1]

Abs(n) == IF n < 0 THEN 0 - n ELSE n

NewContext ==
  [scrollAttempted |-> FALSE, scrollSuccess |-> FALSE, scrollPartialSuccess |-> FALSE,
   coordinatesObtained |-> FALSE, coordinates |-> NoCoordinates, cursorMoved |-> FALSE,
   primaryClickAttempted |-> FALSE, backupClickAttempted |-> FALSE,
   lastError |-> "null"]

NewClickLog ==
  [visible |-> "none", reScroll |-> FALSE, primary |-> "none", backup |-> "none",
   outcome |-> "none", element |-> "present", thrown |-> <<>>, hideCursor |-> 0,
   clicks |-> 0]

\* The numeric id click is called with
ClickedElementId == 7

\* Whether the element of the call is one getElementByNodeId can resolve.
\* For an absent element every lookup of the call ends in 'not found':
\* scrollIntoView catches it in each attempt and in the last resort and
\* reports no success and no progress (scroll.ts, lines 24-27, 260-319),
\* getCenterCoordinates throws (coordinates.ts, lines 62-64, 190-214).
ElementStates == {"present", "absent"}
ScrollResultsFor(element) ==
  IF element = "absent" THEN {NoScrollResult} ELSE ScrollResults
CoordinateResultsFor(element) ==
  IF element = "absent" THEN {FALSE} ELSE BOOLEAN
LookupResultsFor(element) ==
  IF element = "absent" THEN {"notFound"} ELSE {"resolved", "notFound", "failed"}

\* getElementByNodeId, lines 62-85: the message of the error it throws.  The
\* detailed 'not found in DOM' error is thrown again as it is, any other is
\* wrapped.
GetElementError_Rewrapped(lookup, id) ==
  <<"Failed to get element by ID", ToString(id)>>
GetElementError(lookup, id) ==
  IF lookup = "notFound"
    THEN <<"Element with ID", ToString(id), "not found in DOM">>
    ELSE <<"Failed to get element by ID", ToString(id)>>

\* buildClickErrorMessage
BuildClickErrorMessage(id, ctx, detail) ==
  <<"Click operation failed for element", ToString(id),
    IF ctx.scrollAttempted THEN "Scroll: attempted" ELSE "Scroll: Not attempted",
    IF ctx.coordinatesObtained THEN "Coordinates: Obtained" ELSE "Coordinates: Failed to obtain",
    IF ctx.primaryClickAttempted /\ ctx.backupClickAttempted
      THEN "Methods: Both primary and backup failed"
      ELSE IF ctx.primaryClickAttempted THEN "Methods: Primary failed, backup not attempted"
      ELSE IF ctx.backupClickAttempted THEN "Methods: Primary skipped, backup failed"
      ELSE "Methods: Neither primary nor backup attempted",
    "Last error:", ctx.lastError>> \o detail

\* click, lines 181, 343 and 347: the calls of hideCursor on the three ways
\* out of the function
HideCursorOnExit_SuccessOnly(path) == path # "catch"
HideCursorOnExit(path) == TRUE
HideCursorCalls(path) == IF HideCursorOnExit(path) THEN 1 ELSE 0

ClickInit ==
  /\ clickPc = "idle"
  /\ operationContext = NewContext
  /\ useBackupMethod = FALSE
  /\ scrollResult = NoScrollResult
  /\ retryCount = 0
  /\ stableCoordinates = FALSE
  /\ clickLog = NewClickLog

\* click, lines 138-139 and 191-196: where the call goes after the scroll and
\* coordinate phase, and what it sets on the way
GatePc(ctx, backup) ==
  IF ctx.coordinates # NoCoordinates /\ ~backup THEN "primary" ELSE "backup"
GateContext(ctx, backup) ==
  IF ctx.coordinates # NoCoordinates /\ ~backup
    THEN [ctx EXCEPT !.primaryClickAttempted = TRUE]
    ELSE [ctx EXCEPT !.backupClickAttempted = TRUE]

\* click up to the call of scrollIntoView
ClickStart ==
  /\ clickPc = "idle"
  /\ clickPc' = "scroll"
  /\ operationContext' = [NewContext EXCEPT !.scrollAttempted = TRUE]
  /\ useBackupMethod' = FALSE
  /\ scrollResult' = NoScrollResult
  /\ retryCount' = 0
  /\ stableCoordinates' = FALSE
  /\ \E element \in ElementStates : clickLog' = [NewClickLog EXCEPT !.element = element]
  /\ UNCHANGED nonClickVars

\* scrollIntoView has returned
ScrollDone ==
  /\ clickPc = "scroll"
  /\ \E res \in ScrollResultsFor(clickLog.element) :
       /\ scrollResult' = res
       /\ operationContext' =
            [operationContext EXCEPT
               !.scrollSuccess = res.success,
               !.scrollPartialSuccess = res.partialSuccess,
               !.lastError = IF ~res.success /\ ~res.partialSuccess
                               THEN "Scroll failed" ELSE @]
  /\ clickPc' = "coords"
  /\ UNCHANGED <<useBackupMethod, retryCount, stableCoordinates, clickLog>>
  /\ UNCHANGED nonClickVars

\* One round of the coordinate loop; when the loop ends, the test for
\* coordinates that follows it
CoordinateAttempt ==
  /\ clickPc = "coords"
  /\ \E ok \in CoordinateResultsFor(clickLog.element), new \in Coordinates :
       LET old == operationContext.coordinates
           isStable == /\ Abs(old.x - new.x) <= COORDINATE_STABILITY_THRESHOLD
                       /\ Abs(old.y - new.y) <= COORDINATE_STABILITY_THRESHOLD
           stable == ok /\ old # NoCoordinates /\ isStable
           broke == ~ok /\ scrollResult.partialSuccess
           count == IF broke THEN retryCount ELSE retryCount + 1
           ctx == IF ok
                    THEN [operationContext EXCEPT !.coordinatesObtained = TRUE,
                                                  !.coordinates = new]
                    ELSE [operationContext EXCEPT !.lastError = "Coordinate detection failed"]
           again == ~broke /\ ~stable /\ count < MAX_COORDINATE_RETRIES
           backup == ctx.coordinates = NoCoordinates /\ scrollResult.partialSuccess
       IN /\ stableCoordinates' = stable
          /\ retryCount' = count
          /\ IF again
               THEN /\ clickPc' = "coords"
                    /\ operationContext' = ctx
                    /\ UNCHANGED useBackupMethod
               ELSE IF ctx.coordinates # NoCoordinates
                 THEN /\ clickPc' = "visibility"
                      /\ operationContext' = ctx
                      /\ UNCHANGED useBackupMethod
                 ELSE /\ useBackupMethod' = backup
                      /\ clickPc' = GatePc(ctx, backup)
                      /\ operationContext' = GateContext(ctx, backup)
  /\ UNCHANGED <<scrollResult, clickLog>>
  /\ UNCHANGED nonClickVars

\* The check of document.elementFromPoint at the coordinates
VisibilityCheck ==
  /\ clickPc = "visibility"
  /\ \E seen \in {"visible", "hidden", "throws"} :
       /\ clickLog' = [clickLog EXCEPT !.visible = seen]
       /\ IF seen = "throws"
            THEN LET ctx == [operationContext EXCEPT !.lastError = "Scroll/coordinate phase failed"]
                 IN /\ useBackupMethod' = TRUE
                    /\ clickPc' = GatePc(ctx, TRUE)
                    /\ operationContext' = GateContext(ctx, TRUE)
            ELSE IF seen = "hidden" /\ scrollResult.partialSuccess
              THEN LET ctx == [operationContext EXCEPT
                                 !.lastError = "Element not visible at computed coordinates after scroll"]
                   IN /\ clickPc' = GatePc(ctx, useBackupMethod)
                      /\ operationContext' = GateContext(ctx, useBackupMethod)
                      /\ UNCHANGED useBackupMethod
              ELSE IF seen = "hidden"
                THEN /\ clickPc' = "rescroll"
                     /\ UNCHANGED <<operationContext, useBackupMethod>>
                ELSE /\ clickPc' = GatePc(operationContext, useBackupMethod)
                     /\ operationContext' = GateContext(operationContext, useBackupMethod)
                     /\ UNCHANGED useBackupMethod
  /\ UNCHANGED <<scrollResult, retryCount, stableCoordinates>>
  /\ UNCHANGED nonClickVars

\* The second scrollIntoView and the fresh coordinates after it
ReScroll ==
  /\ clickPc = "rescroll"
  /\ \E ok \in BOOLEAN, new \in Coordinates :
       LET ctx == IF ok
                    THEN [operationContext EXCEPT !.coordinates = new]
                    ELSE [operationContext EXCEPT !.lastError = "Re-scroll coordinate detection failed"]
           backup == IF ok THEN useBackupMethod ELSE TRUE
       IN /\ useBackupMethod' = backup
          /\ clickPc' = GatePc(ctx, backup)
          /\ operationContext' = GateContext(ctx, backup)
  /\ clickLog' = [clickLog EXCEPT !.reScroll = TRUE]
  /\ UNCHANGED <<scrollResult, retryCount, stableCoordinates>>
  /\ UNCHANGED nonClickVars

\* click, lines 174-183: after the mouse events were dispatched the cursor is
\* hidden and the call returns
PrimarySucceeded_NoReturn == [pc |-> "backup", outcome |-> "none", backupAttempted |-> TRUE]
PrimarySucceeded == [pc |-> "idle", outcome |-> "returned", backupAttempted |-> FALSE]

\* click, lines 184-196: an error of the primary method is caught and the
\* call goes on to the backup method
PrimaryFailed_Uncaught == [pc |-> "idle", outcome |-> "threw", backupAttempted |-> FALSE]
PrimaryFailed == [pc |-> "backup", outcome |-> "none", backupAttempted |-> TRUE]

\* The primary script, lines 153-171: the click events it dispatches on the
\* element at the coordinates
PrimaryClickEvents == 1

\* What the backup script finds: an option of a select, another HTMLElement,
\* or an element that is no HTMLElement (an SVG element); whether the page
\* has jQuery; whether the element has an onclick handler
BackupTargets ==
  [kind : {"selectOption", "html", "other"}, jQuery : BOOLEAN, onclick : BOOLEAN]

\* The backup script, lines 211-322: how many times it triggers the click
\* handler of the element.  An option of a select gets change events only;
\* an HTMLElement gets one native click(); any other element gets the
\* dispatched click event, then the jQuery trigger, then the direct call of
\* onclick.
BackupClickEvents(target) ==
  IF target.kind = "selectOption" THEN 0
  ELSE IF target.kind = "html" THEN 1
  ELSE 1 + (IF target.jQuery THEN 1 ELSE 0) + (IF target.onclick THEN 1 ELSE 0)

\* The primary method: moveCursor, then the mouse events at the coordinates
PrimaryClick ==
  /\ clickPc = "primary"
  /\ \E moved \in BOOLEAN, res \in {"clicked", "noElement", "throws"} :
       IF res = "clicked"
         THEN /\ operationContext' =
                   [operationContext EXCEPT
                      !.cursorMoved = moved,
                      !.backupClickAttempted = PrimarySucceeded.backupAttempted]
              /\ clickLog' = [clickLog EXCEPT !.primary = "clicked",
                                              !.outcome = PrimarySucceeded.outcome,
                                              !.hideCursor = @ + HideCursorCalls("primary"),
                                              !.clicks = @ + PrimaryClickEvents]
              /\ clickPc' = PrimarySucceeded.pc
              /\ UNCHANGED useBackupMethod
         ELSE /\ operationContext' =
                   [operationContext EXCEPT
                      !.cursorMoved = moved,
                      !.lastError = "Primary click failed",
                      !.backupClickAttempted = PrimaryFailed.backupAttempted]
              /\ clickLog' = [clickLog EXCEPT !.primary = "failed",
                                              !.outcome = PrimaryFailed.outcome]
              /\ useBackupMethod' = TRUE
              /\ clickPc' = PrimaryFailed.pc
  /\ UNCHANGED <<scrollResult, retryCount, stableCoordinates>>
  /\ UNCHANGED nonClickVars

\* The backup method: getElementByNodeId.  The error of a failed lookup
\* goes through the outer catch, which hides the cursor and throws it again.
BackupLookup ==
  /\ clickPc = "backup"
  /\ \E lookup \in LookupResultsFor(clickLog.element) :
       IF lookup = "resolved"
         THEN /\ clickPc' = "backupClick"
              /\ UNCHANGED <<operationContext, clickLog>>
         ELSE LET ctx == [operationContext EXCEPT
                            !.lastError = "Element lookup failed in backup method"]
              IN /\ operationContext' = ctx
                 /\ clickLog' =
                      [clickLog EXCEPT
                         !.backup = "lookupFailed", !.outcome = "threw",
                         !.thrown = BuildClickErrorMessage(ClickedElementId, ctx,
                                       GetElementError(lookup, ClickedElementId)),
                         !.hideCursor = @ + HideCursorCalls("catch")]
                 /\ clickPc' = "idle"
  /\ UNCHANGED <<useBackupMethod, scrollResult, retryCount, stableCoordinates>>
  /\ UNCHANGED nonClickVars

\* The backup method: the click script in the page.  A script that throws or
\* brings nothing back is caught by the outer catch.
BackupClick ==
  /\ clickPc = "backupClick"
  /\ \E res \in {"success", "failure", "undefined", "throws"} :
       IF res = "success"
         THEN /\ \E target \in BackupTargets :
                   clickLog' = [clickLog EXCEPT
                                  !.backup = "clicked", !.outcome = "returned",
                                  !.hideCursor = @ + HideCursorCalls("backup"),
                                  !.clicks = @ + BackupClickEvents(target)]
              /\ UNCHANGED operationContext
         ELSE LET ctx == [operationContext EXCEPT
                            !.lastError = IF res = "failure" THEN "Backup click method failed"
                                          ELSE IF res = "throws" THEN "Script execution failed"
                                          ELSE "Cannot read properties of undefined"]
              IN /\ operationContext' = ctx
                 /\ clickLog' =
                      [clickLog EXCEPT
                         !.backup = "failed", !.outcome = "threw",
                         !.thrown = BuildClickErrorMessage(ClickedElementId, ctx, <<>>),
                         !.hideCursor = @ + HideCursorCalls("catch")]
  /\ clickPc' = "idle"
  /\ UNCHANGED <<useBackupMethod, scrollResult, retryCount, stableCoordinates>>
  /\ UNCHANGED nonClickVars

ClickNext ==
  \/ ClickStart
  \/ ScrollDone
  \/ CoordinateAttempt
  \/ VisibilityCheck
  \/ ReScroll
  \/ PrimaryClick
  \/ BackupLookup
  \/ BackupClick

\* --------------------------------------------------------- Scroll engine
\* (scroll.ts).  Each script run in the page sees the element's bounding box
\* as it is at that moment; the page may move and resize the element between
\* two looks.

SCROLL_MAX_RETRIES == 3
VIEWPORT_TOLERANCE == 10
LAST_RESORT_MARGIN == 100
PROGRESS_THRESHOLD == 5
SCROLL_WAIT_TIME == 300
RETRY_DELAY_BASE == 50

Pow(b, k) == IF k = 0 THEN 1 ELSE IF k = 1 THEN b ELSE b * b
\* scrollIntoView, lines 258 and 299: RETRY_DELAY_BASE * 1.2^attempt
RetryDelay_Steeper(k) == (RETRY_DELAY_BASE * Pow(15, k)) \div Pow(10, k)
RetryDelay(k) == (RETRY_DELAY_BASE * Pow(12, k)) \div Pow(10, k)

\* window.innerWidth and window.innerHeight
ViewportSize == 100

\* Bounding boxes the element can have
Rects == [top : {0 - 200, 40, 125, 150, 300}, left : {40, 300}, width : {0, 20}, height : {0, 20}]
NoRect == [top |-> 0, left |-> 0, width |-> 0 - 1, height |-> 0 - 1]

Bottom(rect) == rect.top + rect.height
Right(rect) == rect.left + rect.width
Max(a, b) == IF a >= b THEN a ELSE b
Min(a, b) == IF a <= b THEN a ELSE b

\* A field the script leaves out reads as FALSE
FailedScroll(reason) ==
  [defined |-> TRUE, success |-> FALSE, reason |-> reason, isFullyVisible |-> FALSE,
   isPartiallyVisible |-> FALSE, madeProgress |-> FALSE]
UndefinedScroll ==
  [defined |-> FALSE, success |-> FALSE, reason |-> "undefined", isFullyVisible |-> FALSE,
   isPartiallyVisible |-> FALSE, madeProgress |-> FALSE]

HasNoDimensions(rect) == rect.width <= 0 \/ rect.height <= 0

IsAlreadyVisible(rect) ==
  /\ rect.top >= 0 - (VIEWPORT_TOLERANCE * 2)
  /\ rect.left >= 0 - (VIEWPORT_TOLERANCE * 2)
  /\ Bottom(rect) <= ViewportSize + (VIEWPORT_TOLERANCE * 2)
  /\ Right(rect) <= ViewportSize + (VIEWPORT_TOLERANCE * 2)

\* The verification after the scroll (the setTimeout callback of the script)
VerifyScroll(initialRect, newRect) ==
  LET expandedTolerance == VIEWPORT_TOLERANCE * 3
      isFullyVisible ==
        /\ newRect.top >= 0 - expandedTolerance
        /\ newRect.left >= 0 - expandedTolerance
        /\ Bottom(newRect) <= ViewportSize + expandedTolerance
        /\ Right(newRect) <= ViewportSize + expandedTolerance
      isPartiallyVisible ==
        /\ newRect.top < ViewportSize + expandedTolerance
        /\ Bottom(newRect) > 0 - expandedTolerance
        /\ newRect.left < ViewportSize + expandedTolerance
        /\ Right(newRect) > 0 - expandedTolerance
      madeProgress ==
        \/ Abs(newRect.top - initialRect.top) > PROGRESS_THRESHOLD
        \/ Abs(newRect.left - initialRect.left) > PROGRESS_THRESHOLD
      centerX == newRect.left + (newRect.width \div 2)
      centerY == newRect.top + (newRect.height \div 2)
      visibleArea ==
        Max(0, Min(Right(newRect), ViewportSize) - Max(newRect.left, 0))
          * Max(0, Min(Bottom(newRect), ViewportSize) - Max(newRect.top, 0))
      isAcceptablyVisible ==
        /\ isPartiallyVisible
        /\ \/ /\ centerX >= 0 - expandedTolerance
              /\ centerX <= ViewportSize + expandedTolerance
              /\ centerY >= 0 - expandedTolerance
              /\ centerY <= ViewportSize + expandedTolerance
           \/ visibleArea * 10 >= newRect.width * newRect.height
           \/ madeProgress
  IN [defined |-> TRUE,
      success |-> isFullyVisible \/ isAcceptablyVisible,
      reason |-> IF isFullyVisible THEN "Fully visible"
                 ELSE IF isAcceptablyVisible THEN "Acceptably visible"
                 ELSE IF madeProgress THEN "Made progress but not visible"
                 ELSE "Still not visible",
      isFullyVisible |-> isFullyVisible,
      isPartiallyVisible |-> isPartiallyVisible,
      madeProgress |-> madeProgress]

\* The script of one scroll attempt
ScrollScript(found, initialRect, scrolled, newRect) ==
  IF ~found THEN FailedScroll("Element not found")
  ELSE IF HasNoDimensions(initialRect) THEN FailedScroll("Element has no dimensions")
  ELSE IF IsAlreadyVisible(initialRect)
    THEN [defined |-> TRUE, success |-> TRUE, reason |-> "Already visible",
          isFullyVisible |-> TRUE, isPartiallyVisible |-> TRUE, madeProgress |-> FALSE]
  ELSE IF ~scrolled THEN FailedScroll("No scroll method succeeded")
  ELSE VerifyScroll(initialRect, newRect)

\* The box the script of one scroll attempt saw last
SeenRect(initialRect, scrolled, newRect) ==
  IF HasNoDimensions(initialRect) \/ IsAlreadyVisible(initialRect) \/ ~scrolled
    THEN initialRect ELSE newRect

\* The script of the last-resort attempt
LastResortScript(found, rect) ==
  /\ found
  /\ rect.top < ViewportSize + LAST_RESORT_MARGIN
  /\ Bottom(rect) > 0 - LAST_RESORT_MARGIN
  /\ rect.left < ViewportSize + LAST_RESORT_MARGIN
  /\ Right(rect) > 0 - LAST_RESORT_MARGIN

NoBestResult == [UndefinedScroll EXCEPT !.reason = "null"]
NoScrollReturn == [how |-> "none", success |-> FALSE, partialSuccess |-> FALSE,
                   path |-> "none", rect |-> NoRect]

NewScrollLog == [sleeps |-> <<>>, attempts |-> 0, lastResorts |-> 0]

ScrollInit ==
  /\ scrollPc = "idle"
  /\ attempt = 0
  /\ bestResult = NoBestResult
  /\ anyProgressMade = FALSE
  /\ scrollReturn = NoScrollReturn
  /\ scrollLog = NewScrollLog

\* scrollIntoView, lines 303-319: the result after the loop
FinalScrollReturn(best, progress, rect) ==
  [how |-> "returned", success |-> FALSE,
   partialSuccess |-> progress \/ (best.defined /\ (best.isPartiallyVisible \/ best.madeProgress)),
   path |-> "exhausted", rect |-> rect]

ScrollStart ==
  /\ scrollPc = "idle"
  /\ scrollPc' = "attempt"
  /\ attempt' = 0
  /\ bestResult' = NoBestResult
  /\ anyProgressMade' = FALSE
  /\ scrollReturn' = NoScrollReturn
  /\ scrollLog' = NewScrollLog
  /\ UNCHANGED nonScrollVars

\* One pass of the loop: getElementByNodeId, the scroll script, and what
\* follows it up to the next pass, the last-resort attempt or the return
ScrollAttempt ==
  /\ scrollPc = "attempt"
  /\ \E lookup \in BOOLEAN, ran \in {"ran", "undefined", "throws"}, found \in BOOLEAN,
        initialRect \in Rects, scrolled \in BOOLEAN, newRect \in Rects :
       LET res == IF ran = "ran" THEN ScrollScript(found, initialRect, scrolled, newRect)
                  ELSE UndefinedScroll
           seen == IF lookup /\ ran = "ran" /\ found
                     THEN SeenRect(initialRect, scrolled, newRect) ELSE NoRect
           best == IF res.defined /\ (~bestResult.defined \/ res.success \/ res.madeProgress)
                     THEN res ELSE bestResult
           progress == anyProgressMade \/ (res.defined /\ res.madeProgress)
           caught == ~lookup \/ ran = "throws"
           slept == IF caught /\ attempt = SCROLL_MAX_RETRIES - 1 THEN <<>>
                    ELSE IF ~caught /\ res.defined /\ res.success THEN <<SCROLL_WAIT_TIME>>
                    ELSE <<RetryDelay(attempt)>>
       IN /\ scrollLog' = [scrollLog EXCEPT !.sleeps = @ \o slept, !.attempts = @ + 1]
          /\ IF ~lookup \/ ran = "throws"
               THEN \* catch
                    /\ UNCHANGED <<bestResult, anyProgressMade>>
                    /\ IF attempt = SCROLL_MAX_RETRIES - 1
                         THEN /\ scrollPc' = "lastResort"
                              /\ UNCHANGED <<attempt, scrollReturn>>
                         ELSE /\ attempt' = attempt + 1
                              /\ scrollPc' = "attempt"
                              /\ UNCHANGED scrollReturn
               ELSE /\ bestResult' = best
                    /\ anyProgressMade' = progress
                    /\ IF res.defined /\ res.success
                         THEN /\ scrollPc' = "idle"
                              /\ scrollReturn' = [how |-> "returned", success |-> TRUE,
                                                  partialSuccess |-> TRUE,
                                                  path |-> IF res.reason = "Already visible"
                                                             THEN "shortcut" ELSE "verified",
                                                  rect |-> seen]
                              /\ UNCHANGED attempt
                         ELSE /\ attempt' = attempt + 1
                              /\ IF attempt + 1 < SCROLL_MAX_RETRIES
                                   THEN /\ scrollPc' = "attempt"
                                        /\ UNCHANGED scrollReturn
                                   ELSE /\ scrollPc' = "idle"
                                        /\ scrollReturn' = FinalScrollReturn(best, progress, seen)
  /\ UNCHANGED nonScrollVars

\* The last-resort attempt in the catch of the last pass, and the return
LastResort ==
  /\ scrollPc = "lastResort"
  /\ \E lookup \in BOOLEAN, ran \in {"ran", "throws"}, found \in BOOLEAN, rect \in Rects :
       LET seen == IF lookup /\ ran = "ran" /\ found THEN rect ELSE NoRect
       IN IF lookup /\ ran = "ran" /\ LastResortScript(found, rect)
            THEN /\ scrollReturn' = [how |-> "returned", success |-> TRUE,
                                     partialSuccess |-> TRUE, path |-> "lastResort",
                                     rect |-> seen]
                 /\ scrollLog' = [scrollLog EXCEPT !.sleeps = @ \o <<SCROLL_WAIT_TIME>>,
                                                   !.lastResorts = @ + 1]
                 /\ UNCHANGED attempt
            ELSE /\ attempt' = attempt + 1
                 /\ scrollLog' = [scrollLog EXCEPT !.sleeps = @ \o <<RetryDelay(attempt)>>,
                                                   !.lastResorts = @ + 1]
                 /\ scrollReturn' = FinalScrollReturn(bestResult, anyProgressMade, seen)
  /\ scrollPc' = "idle"
  /\ UNCHANGED <<bestResult, anyProgressMade>>
  /\ UNCHANGED nonScrollVars

ScrollNext ==
  \/ ScrollStart
  \/ ScrollAttempt
  \/ LastResort

\* ----------------------------------------------------- Coordinate engine
\* (getCenterCoordinates).  A JavaScript number is a record that says
\* whether it is NaN; every comparison with NaN is false and every sum with
\* NaN is NaN.

COORD_MAX_RETRIES == 3
VIEWPORT_MARGIN == 50
MAX_COORDINATE_VALUE == 10000

NaN == [nan |-> TRUE, v |-> 0]
Num(n) == [nan |-> FALSE, v |-> n]
IsNaN(a) == a.nan
Plus(a, b) == IF a.nan \/ b.nan THEN NaN ELSE Num(a.v + b.v)
Half(a) == IF a.nan THEN NaN ELSE Num(a.v \div 2)
Less(a, b) == ~a.nan /\ ~b.nan /\ a.v < b.v
Greater(a, b) == Less(b, a)
LessEq(a, b) == ~a.nan /\ ~b.nan /\ a.v <= b.v

\* Bounding boxes the element can have, and the sizes of the window
CoordRects ==
  [left : {Num(0 - 40), Num(10), Num(9990), Num(10010), NaN},
   top : {Num(0 - 40), Num(10)},
   width : {Num(0), Num(20)},
   height : {Num(20)}]
NoCoordRect == [left |-> NaN, top |-> NaN, width |-> NaN, height |-> NaN]
Viewports == { [width |-> 100, height |-> 100], [width |-> 20000, height |-> 100] }

NoXY == [x |-> NaN, y |-> NaN]

\* The script: the element's centre and whether it is within the margin
CenterOf(rect) ==
  [x |-> Plus(rect.left, Half(rect.width)), y |-> Plus(rect.top, Half(rect.height))]
InViewport(rect, viewport) ==
  /\ Greater(Plus(rect.top, rect.height), Num(0 - VIEWPORT_MARGIN))
  /\ Greater(Plus(rect.left, rect.width), Num(0 - VIEWPORT_MARGIN))
  /\ Less(rect.top, Num(viewport.height + VIEWPORT_MARGIN))
  /\ Less(rect.left, Num(viewport.width + VIEWPORT_MARGIN))
CoordHasNoDimensions(rect) ==
  LessEq(rect.width, Num(0)) \/ LessEq(rect.height, Num(0))

\* getCenterCoordinates, lines 176-178: the test that rejects coordinates
InvalidCoordinates_NoUpperBound(c) ==
  \/ IsNaN(c.x) \/ IsNaN(c.y)
  \/ Less(c.x, Num(0)) \/ Less(c.y, Num(0))
InvalidCoordinates(c) ==
  \/ IsNaN(c.x) \/ IsNaN(c.y)
  \/ Less(c.x, Num(0)) \/ Less(c.y, Num(0))
  \/ Greater(c.x, Num(MAX_COORDINATE_VALUE)) \/ Greater(c.y, Num(MAX_COORDINATE_VALUE))

NoCoordReturn == [how |-> "none", xy |-> NoXY]

CoordInit ==
  /\ coordPc = "idle"
  /\ attempts = 0
  /\ coordLastError = ""
  /\ lastRect = NoCoordRect
  /\ elementFound = FALSE
  /\ attemptsMade = 0
  /\ coordReturn = NoCoordReturn

GetCenterCoordinates ==
  /\ coordPc = "idle"
  /\ coordPc' = "attempt"
  /\ attempts' = 0
  /\ coordLastError' = ""
  /\ lastRect' = NoCoordRect
  /\ elementFound' = FALSE
  /\ attemptsMade' = 0
  /\ coordReturn' = NoCoordReturn
  /\ UNCHANGED nonCoordVars

\* What one pass of the loop comes to: "return", "throw", or "retry" (the
\* sleep and continue, or the sleep at the end of the catch)
PassOutcome(lookup, ran, found, rect, viewport, scrolled, last) ==
  IF ~lookup \/ ran = "throws" THEN [kind |-> IF last THEN "throw" ELSE "retry",
                                     error |-> "thrown", rect |-> lastRect,
                                     found |-> elementFound]
  ELSE IF ran = "null" THEN [kind |-> IF last THEN "throw" ELSE "retry",
                             error |-> "Script returned null coordinates",
                             rect |-> lastRect, found |-> elementFound]
  ELSE IF ~found THEN [kind |-> IF last THEN "throw" ELSE "retry",
                       error |-> "Element not found in DOM", rect |-> NoCoordRect,
                       found |-> FALSE]
  ELSE IF CoordHasNoDimensions(rect)
    THEN [kind |-> IF last THEN "throw" ELSE "retry",
          error |-> "Element has no dimensions", rect |-> rect, found |-> TRUE]
  ELSE IF ~InViewport(rect, viewport)
    THEN IF scrolled
           THEN [kind |-> "retry", error |-> "Element not in viewport", rect |-> rect,
                 found |-> elementFound]
           ELSE [kind |-> IF last THEN "throw" ELSE "retry", error |-> "thrown",
                 rect |-> rect, found |-> elementFound]
  ELSE IF InvalidCoordinates(CenterOf(rect))
    THEN [kind |-> IF last THEN "throw" ELSE "retry",
          error |-> "Invalid coordinates computed", rect |-> rect, found |-> elementFound]
  ELSE [kind |-> "return", error |-> coordLastError, rect |-> lastRect,
        found |-> elementFound]

\* One pass of the loop, and the throw that follows the loop
CoordPass ==
  /\ coordPc = "attempt"
  /\ attemptsMade' = attemptsMade + 1
  /\ \E lookup \in BOOLEAN, ran \in {"ran", "null", "throws"}, found \in BOOLEAN,
        rect \in CoordRects, viewport \in Viewports, scrolled \in BOOLEAN :
       LET out == PassOutcome(lookup, ran, found, rect, viewport, scrolled,
                              attempts = COORD_MAX_RETRIES - 1)
       IN /\ coordLastError' = out.error
          /\ lastRect' = out.rect
          /\ elementFound' = out.found
          /\ IF out.kind = "return"
               THEN /\ coordReturn' = [how |-> "returned", xy |-> CenterOf(rect)]
                    /\ coordPc' = "idle"
                    /\ UNCHANGED attempts
               ELSE IF out.kind = "throw"
                 THEN /\ coordReturn' = [how |-> "threw", xy |-> NoXY]
                      /\ coordPc' = "idle"
                      /\ UNCHANGED attempts
                 ELSE /\ attempts' = attempts + 1
                      /\ IF attempts + 1 < COORD_MAX_RETRIES
                           THEN /\ coordPc' = "attempt"
                                /\ UNCHANGED coordReturn
                           ELSE /\ coordPc' = "idle"
                                /\ coordReturn' = [how |-> "threw", xy |-> NoXY]
  /\ UNCHANGED nonCoordVars

CoordNext ==
  \/ GetCenterCoordinates
  \/ CoordPass

\* ----------------------------------------------------- SetValue executor
\* (actions/setValue.ts).  Time is counted in ms from the call of setValue.
\* Only the sleeps and timers of the code add to it: scripts and messages
\* take no time, and a timer fires exactly when it is due.

CHAR_DELAY == 50
TYPING_BUFFER == 100
CHANGE_DELAY == 50
FALLBACK_WAIT == 200
WAIT_AFTER_SCROLL == 25
WAIT_AFTER_CLICK == 50
BACKUP_CLICK_DELAY == 50
COORD_RETRY_DELAY == 75

\* Longest value typed
MaxLen == 3

Chars == {"a", "\n"}
Values == UNION { [1..n -> Chars] : n \in 0..MaxLen }
HasNewline(value) == \E i \in 1..Len(value) : value[i] = "\n"

\* The target element: its tag, whether isContentEditable holds, whether a
\* form encloses it, and whether it lies in a Draft.js editor (with or
\* without the editor's content node)
Elements ==
  [tag : {"input", "textarea", "div"}, editable : BOOLEAN, form : BOOLEAN,
   draft : {"none", "ok", "noContent"}]

\* The sleeps of one scrollIntoView: the wait after a success, or the three
\* delays after three failed attempts
ScrollSleep(ok) ==
  IF ok THEN SCROLL_WAIT_TIME ELSE RetryDelay(0) + RetryDelay(1) + RetryDelay(2)
\* The sleeps of one click by the path it takes: the primary method, the
\* backup method, or a throw after the backup delay; the coordinate retries
\* of a click on a moving element come on top and are left out
ClickSleep(scrollOk, moved, path) ==
  ScrollSleep(scrollOk) + WAIT_AFTER_SCROLL
    + (IF path = "primary"
         THEN (IF moved THEN WAIT_AFTER_CLICK ELSE 0) + WAIT_AFTER_CLICK
       ELSE IF path = "backup" THEN BACKUP_CLICK_DELAY + WAIT_AFTER_CLICK
       ELSE BACKUP_CLICK_DELAY)
\* The sleeps of attemptCursorMovement: after moveCursor, or the two retry
\* delays of a getCenterCoordinates that throws
CursorSleep(ok) ==
  IF ok THEN WAIT_AFTER_CLICK ELSE COORD_RETRY_DELAY * 1 + COORD_RETRY_DELAY * 2

\* operationContext; directFocus notes what became of the direct focus:
\* "none" when it was not tried; lastError is "null" until a step writes it;
\* primaryError notes the error the primary method rejected with
NoLastError == "null"
NewSvContext ==
  [primarySetValueAttempted |-> FALSE, fallbackSetValueAttempted |-> FALSE,
   scrollSuccess |-> FALSE, clickAttempted |-> FALSE, clickSuccess |-> FALSE,
   coordinatesObtained |-> FALSE, directFocus |-> "none", lastError |-> NoLastError,
   primaryError |-> NoLastError]
NewSvPage ==
  [value |-> <<"x">>, typed |-> 0, keystrokes |-> 0, changes |-> 0, submits |-> 0,
   lineBreaks |-> 0, unprevented |-> 0, writers |-> {}, nonFailing |-> FALSE,
   scriptAt |-> 0]
NoSvReturn ==
  [how |-> "none", path |-> "none", at |-> 0, lastError |-> NoLastError,
   fallbackError |-> NoLastError]
NoElement == [tag |-> "div", editable |-> FALSE, form |-> FALSE, draft |-> "none"]

SvInit ==
  /\ svPc = "idle"
  /\ svElapsed = 0
  /\ svValue = <<>>
  /\ svElement = NoElement
  /\ svContext = NewSvContext
  /\ svTimers = {}
  /\ svPage = NewSvPage
  /\ svReturn = NoSvReturn

\* setValue is called
SetValue ==
  /\ svPc = "idle"
  /\ svTimers = {}
  /\ \E value \in Values, element \in Elements :
       /\ svValue' = value
       /\ svElement' = element
  /\ svPc' = "prepare"
  /\ svElapsed' = 0
  /\ svContext' = NewSvContext
  /\ svPage' = NewSvPage
  /\ svReturn' = NoSvReturn
  /\ UNCHANGED svTimers
  /\ UNCHANGED nonSvVars

\* prepareElement, lines 356-377: the direct focus runs in the catch of the
\* click
DirectFocusTried_Always(clickOk) == TRUE
DirectFocusTried(clickOk) == ~clickOk

\* Outcomes of the direct focus: the script focused the element, reported no
\* success, or the lookup or the script threw
FocusResults == {"focused", "unfocused", "threw"}

\* prepareElement and attemptCursorMovement, the writes to context.lastError
\* at lines 352, 362, 375 and 393 in their order: the last one stays
LastErrorAfterPreparation(scrollOk, clickOk, focus, coordsOk) ==
  IF ~coordsOk THEN "Coordinates failed"
  ELSE IF ~clickOk /\ focus = "threw" THEN "Focus failed"
  ELSE IF ~clickOk THEN "Click failed"
  ELSE IF ~scrollOk THEN "Scroll"
  ELSE NoLastError

\* buildSetValueErrorMessage, lines 827-829: the text after 'Last error: ',
\* "null" when the message has no such part
BuildSetValueErrorMessage(context) == context.lastError

\* prepareElement and attemptCursorMovement; neither lets an error out
PrepareElement ==
  /\ svPc = "prepare"
  /\ \E scrollOk \in BOOLEAN, clickScrollOk \in BOOLEAN, moved \in BOOLEAN,
        path \in {"primary", "backup", "threw"}, focus \in FocusResults,
        coordsOk \in BOOLEAN :
       LET clickOk == path # "threw"
           tried == DirectFocusTried(clickOk)
       IN /\ ~tried => focus = "focused"
          /\ svElapsed' = svElapsed + ScrollSleep(scrollOk)
                            + ClickSleep(clickScrollOk, moved, path) + WAIT_AFTER_CLICK
                            + CursorSleep(coordsOk)
          /\ svPage' = [svPage EXCEPT !.nonFailing =
                          scrollOk /\ clickScrollOk /\ path = "primary" /\ coordsOk]
          /\ svContext' = [svContext EXCEPT
                             !.scrollSuccess = scrollOk,
                             !.clickAttempted = TRUE,
                             !.clickSuccess = clickOk,
                             !.directFocus = IF tried THEN focus ELSE "none",
                             !.coordinatesObtained = coordsOk,
                             !.lastError =
                                LastErrorAfterPreparation(scrollOk, clickOk,
                                                          IF tried THEN focus ELSE "none",
                                                          coordsOk),
                             !.primarySetValueAttempted = TRUE]
  /\ svPc' = "primary"
  /\ UNCHANGED <<svValue, svElement, svTimers, svReturn>>
  /\ UNCHANGED nonSvVars

\* enhancedSetValueScript up to its return: the result it brings back
PrimaryResult(found, focusable, element) ==
  IF ~found THEN "Element not found"
  ELSE IF ~focusable THEN "Element not focusable"
  ELSE IF element.draft = "noContent" THEN "Could not find Draft.js editor content"
  ELSE "success"

\* enhancedSetValueScript: the content after the clearing at lines 253-258
ClearedValue(element, value) ==
  IF element.draft = "ok" THEN value
  ELSE IF element.tag \in {"input", "textarea"} \/ element.editable THEN <<>>
  ELSE value

\* enhancedSetValueScript: the timers it sets, one for each character
CharTimers(value, now) ==
  { [kind |-> "char", index |-> i, due |-> now + (i - 1) * CHAR_DELAY] : i \in 1..Len(value) }

\* setValue, the promise at lines 68-96: where it goes once the primary method
\* has resolved or rejected
AfterPrimary_Always(result) == "fallback"
AfterPrimary(result) == IF result = "success" THEN "typing" ELSE "fallback"

\* executeSetValueWithCompletion: getElementByNodeId, the script, and the
\* completion timer; a failure goes to the catch of setValue, which sets the
\* flag of the fallback
ExecuteSetValueWithCompletion ==
  /\ svPc = "primary"
  /\ \E lookup \in BOOLEAN, ran \in BOOLEAN, found \in BOOLEAN, focusable \in BOOLEAN :
       LET result == IF ~lookup THEN "Element not found in DOM"
                     ELSE IF ~ran THEN "Script failed"
                     ELSE PrimaryResult(found, focusable, svElement)
       IN /\ IF result = "success"
               THEN /\ svPage' = [svPage EXCEPT
                                    !.value = ClearedValue(svElement, @),
                                    !.writers =
                                       IF ClearedValue(svElement, svPage.value) # svPage.value
                                         THEN @ \cup {"primary"} ELSE @,
                                    !.scriptAt = svElapsed]
                    /\ svTimers' = CharTimers(svValue, svElapsed)
                         \cup { [kind |-> "done", index |-> 0,
                                 due |-> svElapsed + Len(svValue) * CHAR_DELAY + TYPING_BUFFER] }
               ELSE UNCHANGED <<svPage, svTimers>>
          /\ svPc' = AfterPrimary(result)
          /\ svContext' = [svContext EXCEPT
                             !.fallbackSetValueAttempted = (AfterPrimary(result) = "fallback"),
                             !.primaryError = IF result = "success" THEN NoLastError ELSE result]
  /\ UNCHANGED <<svElapsed, svValue, svElement, svReturn>>
  /\ UNCHANGED nonSvVars

\* The newline branch at lines 280-299: what the character does besides its
\* key events
NewlineEffect_SubmitFirst(element, prevented) ==
  IF ~prevented /\ element.form THEN "submit"
  ELSE IF element.tag = "textarea" THEN "insert"
  ELSE IF element.editable THEN "execCommand"
  ELSE "nothing"
NewlineEffect(element, prevented) ==
  IF element.tag = "textarea" THEN "insert"
  ELSE IF element.editable THEN "execCommand"
  ELSE IF element.tag = "input" /\ ~prevented /\ element.form THEN "submit"
  ELSE "nothing"

\* The timer callback of one character (lines 199-247 for Draft.js, 261-333
\* otherwise): what it does to the page
TypeCharacter(page, element, char, prevented) ==
  IF element.draft = "ok"
    THEN IF char = "\n"
           THEN [page EXCEPT !.typed = @ + 1, !.keystrokes = @ + 1, !.lineBreaks = @ + 1,
                             !.value = Append(@, char), !.writers = @ \cup {"primary"}]
           ELSE [page EXCEPT !.typed = @ + 1, !.keystrokes = @ + 1,
                             !.value = Append(@, char), !.writers = @ \cup {"primary"}]
  ELSE IF char = "\n"
    THEN LET effect == NewlineEffect(element, prevented)
             keyed == [page EXCEPT !.typed = @ + 1, !.keystrokes = @ + 1,
                                   !.unprevented = IF prevented THEN @ ELSE @ + 1]
         IN IF effect = "insert"
              THEN [keyed EXCEPT !.lineBreaks = @ + 1, !.value = Append(@, char),
                                 !.writers = @ \cup {"primary"}]
            ELSE IF effect = "execCommand"
              THEN [keyed EXCEPT !.lineBreaks = @ + 1, !.writers = @ \cup {"primary"}]
            ELSE IF effect = "submit"
              THEN [keyed EXCEPT !.submits = @ + 1]
            ELSE keyed
  ELSE IF element.tag \in {"input", "textarea"} \/ element.editable
    THEN [page EXCEPT !.typed = @ + 1, !.keystrokes = @ + 1,
                      !.value = Append(@, char), !.writers = @ \cup {"primary"}]
  ELSE [page EXCEPT !.typed = @ + 1, !.keystrokes = @ + 1]

IsNextTimer(t) == t \in svTimers /\ \A u \in svTimers : t.due <= u.due

\* A character timer of the page fires; the last one sets the change timer
CharTimer ==
  /\ svPc = "typing"
  /\ \E t \in svTimers, prevented \in BOOLEAN :
       /\ IsNextTimer(t)
       /\ t.kind = "char"
       /\ svElapsed' = t.due
       /\ svPage' = TypeCharacter(svPage, svElement, svValue[t.index], prevented)
       /\ svTimers' = (svTimers \ {t}) \cup
            (IF t.index = Len(svValue)
               THEN { [kind |-> "change", index |-> 0, due |-> t.due + CHANGE_DELAY] }
               ELSE {})
  /\ UNCHANGED <<svPc, svValue, svElement, svContext, svReturn>>
  /\ UNCHANGED nonSvVars

\* The change timer of the page fires
ChangeTimer ==
  /\ svPc = "typing"
  /\ \E t \in svTimers :
       /\ IsNextTimer(t)
       /\ t.kind = "change"
       /\ svElapsed' = t.due
       /\ svTimers' = svTimers \ {t}
  /\ svPage' = [svPage EXCEPT !.changes = @ + 1]
  /\ UNCHANGED <<svPc, svValue, svElement, svContext, svReturn>>
  /\ UNCHANGED nonSvVars

\* The completion timer of executeSetValueWithCompletion fires: the cursor is
\* hidden and setValue resolves
CompletionTimer ==
  /\ svPc = "typing"
  /\ \E t \in svTimers :
       /\ IsNextTimer(t)
       /\ t.kind = "done"
       /\ svElapsed' = t.due
       /\ svTimers' = svTimers \ {t}
       /\ svReturn' = [how |-> "resolved", path |-> "primary", at |-> t.due,
                       lastError |-> NoLastError, fallbackError |-> NoLastError]
  /\ svPc' = IF svTimers' = {} THEN "returned" ELSE "typing"
  /\ UNCHANGED <<svValue, svElement, svContext, svPage>>
  /\ UNCHANGED nonSvVars

\* fallbackSetValueScript: whether it can write into the element
FallbackWrites(found, element) ==
  found /\ (element.tag \in {"input", "textarea"} \/ element.editable)

\* executeSetValueFallback and fallbackSetValueScript: the error the
\* fallback method throws; the catch of setValue at lines 85-89 does not
\* write it to context.lastError, nor the error of the primary method
FallbackError(lookup, ran, found, focusable) ==
  IF ~lookup THEN "Element not found in DOM"
  ELSE IF ~ran THEN "Script failed"
  ELSE IF ~found THEN "Element not found in fallback"
  ELSE IF ~focusable THEN "Element not focusable"
  ELSE "Element type not supported in fallback"

\* executeSetValueFallback: getElementByNodeId, the script, the wait; setValue
\* resolves after it or rejects with the message of buildSetValueErrorMessage
ExecuteSetValueFallback ==
  /\ svPc = "fallback"
  /\ \E lookup \in BOOLEAN, ran \in BOOLEAN, found \in BOOLEAN, focusable \in BOOLEAN :
       IF lookup /\ ran /\ focusable /\ FallbackWrites(found, svElement)
         THEN /\ svPage' = [svPage EXCEPT !.value = svValue, !.changes = @ + 1,
                                          !.writers = @ \cup {"fallback"}]
              /\ svElapsed' = svElapsed + FALLBACK_WAIT
              /\ svReturn' = [how |-> "resolved", path |-> "fallback",
                              at |-> svElapsed + FALLBACK_WAIT, lastError |-> NoLastError,
                              fallbackError |-> NoLastError]
         ELSE /\ svReturn' =
                   [how |-> "rejected", path |-> "fallback", at |-> svElapsed,
                    lastError |-> BuildSetValueErrorMessage(svContext),
                    fallbackError |-> FallbackError(lookup, ran, found, focusable)]
              /\ UNCHANGED <<svPage, svElapsed>>
  /\ svPc' = "returned"
  /\ UNCHANGED <<svValue, svElement, svContext, svTimers>>
  /\ UNCHANGED nonSvVars

SvNext ==
  \/ SetValue
  \/ PrepareElement
  \/ ExecuteSetValueWithCompletion
  \/ CharTimer
  \/ ChangeTimer
  \/ CompletionTimer
  \/ ExecuteSetValueFallback

\* ------------------------------------------------------------- navigate
\* (actions/setValue.ts).  Time is counted in ms from the call; the timers
\* fire exactly when due, while the events of the tab and the callbacks of
\* chrome.tabs.update and chrome.tabs.get arrive whenever the browser sends
\* them.

NAVIGATION_TIMEOUT == 20000
WAIT_AFTER_COMPLETE == 300

\* Step of the clock between events, and how long a call is followed
NavStep == 100
MaxNavElapsed == 20500

TabIds == {"task", "other"}
TabStatuses == {"loading", "complete"}
TabUrls == {"old", "target"}
Tabs == [exists : {TRUE}, url : TabUrls, status : TabStatuses]
ClosedTab == [exists |-> FALSE, url |-> "old", status |-> "complete"]

NoNavError == [kind |-> "none", url |-> "none", status |-> "none"]
NoNavOutcome == [how |-> "none", at |-> 0, error |-> NoNavError]
NewNavContext == [timeoutReached |-> FALSE, lastError |-> NoNavError, getPending |-> FALSE]
NewNavLog == [completeAt |-> 0 - 1, updateErrorAt |-> 0 - 1, settleCalls |-> 0]

NavInit ==
  /\ navPc = "idle"
  /\ navElapsed = 0
  /\ navContext = NewNavContext
  /\ navListener = FALSE
  /\ navTimers = {}
  /\ navUpdate = "none"
  /\ navTab = ClosedTab
  /\ navOutcome = NoNavOutcome
  /\ navLog = NewNavLog

\* resolve and reject of the promise: only the first call settles it
Settle_Again(outcome, how, at, error) == [how |-> how, at |-> at, error |-> error]
Settle(outcome, how, at, error) ==
  IF outcome.how = "none" THEN [how |-> how, at |-> at, error |-> error] ELSE outcome

\* navigate up to its return of the promise: the timeout timer, the listener
\* and the call of chrome.tabs.update, on a tab that is loading or loaded
Navigate ==
  /\ navPc = "idle"
  /\ navTab' \in [exists : {TRUE}, url : {"old"}, status : TabStatuses]
  /\ navPc' = "called"
  /\ navElapsed' = 0
  /\ navContext' = NewNavContext
  /\ navTimers' = { [kind |-> "timeout", due |-> NAVIGATION_TIMEOUT] }
  /\ navListener' = TRUE
  /\ navUpdate' = "pending"
  /\ navOutcome' = NoNavOutcome
  /\ navLog' = NewNavLog
  /\ UNCHANGED nonNavVars

\* chrome.tabs.onUpdated fires for some tab; the listener runs if it is
\* still registered
TabUpdated ==
  /\ navPc = "called"
  /\ navTab.exists
  /\ \E updatedTabId \in TabIds, changeStatus \in TabStatuses, url \in TabUrls :
       /\ navTab' = IF updatedTabId = "task"
                      THEN [navTab EXCEPT !.status = changeStatus, !.url = url]
                      ELSE navTab
       /\ IF navListener /\ updatedTabId = "task" /\ changeStatus = "complete"
            THEN /\ navListener' = FALSE
                 /\ navTimers' = { t \in navTimers : t.kind # "timeout" }
                      \cup { [kind |-> "resolve", due |-> navElapsed + WAIT_AFTER_COMPLETE] }
                 /\ navLog' = [navLog EXCEPT !.completeAt = navElapsed]
            ELSE UNCHANGED <<navListener, navTimers, navLog>>
  /\ UNCHANGED <<navPc, navElapsed, navContext, navUpdate, navOutcome>>
  /\ UNCHANGED nonNavVars

\* The task's tab is closed
TabRemoved ==
  /\ navPc = "called"
  /\ navTab.exists
  /\ navTab' = ClosedTab
  /\ UNCHANGED <<navPc, navElapsed, navContext, navListener, navTimers, navUpdate,
                 navOutcome, navLog>>
  /\ UNCHANGED nonNavVars

\* The callback of chrome.tabs.update, with or without chrome.runtime.lastError
UpdateCallback ==
  /\ navPc = "called"
  /\ navUpdate = "pending"
  /\ \E lastError \in BOOLEAN :
       IF lastError
         THEN /\ navUpdate' = "error"
              /\ navListener' = FALSE
              /\ navTimers' = { t \in navTimers : t.kind # "timeout" }
              /\ navContext' = [navContext EXCEPT
                                  !.lastError = [kind |-> "update", url |-> "none",
                                                 status |-> "none"]]
              /\ navOutcome' = Settle(navOutcome, "rejected", navElapsed,
                                      [kind |-> "update", url |-> "none", status |-> "none"])
              /\ navLog' = [navLog EXCEPT !.updateErrorAt = navElapsed,
                                          !.settleCalls = @ + 1]
         ELSE /\ navUpdate' = "ok"
              /\ UNCHANGED <<navListener, navTimers, navContext, navOutcome, navLog>>
  /\ UNCHANGED <<navPc, navElapsed, navTab>>
  /\ UNCHANGED nonNavVars

\* The timeout timer fires: the listener is removed and chrome.tabs.get is called
TimeoutTimer ==
  /\ navPc = "called"
  /\ \E t \in navTimers :
       /\ t.kind = "timeout"
       /\ t.due = navElapsed
       /\ navTimers' = navTimers \ {t}
  /\ navContext' = [navContext EXCEPT !.timeoutReached = TRUE, !.getPending = TRUE]
  /\ navListener' = FALSE
  /\ UNCHANGED <<navPc, navElapsed, navUpdate, navTab, navOutcome, navLog>>
  /\ UNCHANGED nonNavVars

\* What chrome.tabs.get brings to the timeout message
CurrentUrl(tab) == IF tab.exists THEN tab.url ELSE "unknown"
CurrentStatus(tab) == IF tab.exists THEN tab.status ELSE "unknown"

\* The callback of chrome.tabs.get in the timeout handler: reject
TabsGetCallback ==
  /\ navPc = "called"
  /\ navContext.getPending
  /\ LET error == [kind |-> "timeout", url |-> CurrentUrl(navTab),
                   status |-> CurrentStatus(navTab)]
     IN /\ navContext' = [navContext EXCEPT !.getPending = FALSE, !.lastError = error]
        /\ navOutcome' = Settle(navOutcome, "rejected", navElapsed, error)
  /\ navLog' = [navLog EXCEPT !.settleCalls = @ + 1]
  /\ UNCHANGED <<navPc, navElapsed, navListener, navTimers, navUpdate, navTab>>
  /\ UNCHANGED nonNavVars

\* setTimeout(resolve, WAIT_AFTER_COMPLETE) fires
ResolveTimer ==
  /\ navPc = "called"
  /\ \E t \in navTimers :
       /\ t.kind = "resolve"
       /\ t.due = navElapsed
       /\ navTimers' = navTimers \ {t}
  /\ navOutcome' = Settle(navOutcome, "resolved", navElapsed, NoNavError)
  /\ navLog' = [navLog EXCEPT !.settleCalls = @ + 1]
  /\ UNCHANGED <<navPc, navElapsed, navContext, navListener, navUpdate, navTab>>
  /\ UNCHANGED nonNavVars

\* Time passes up to the next timer; the call is followed until the promise
\* has settled and no timer is left
NavTick ==
  /\ navPc = "called"
  /\ navOutcome.how = "none" \/ navTimers # {}
  /\ navElapsed + NavStep <= MaxNavElapsed
  /\ \A t \in navTimers : navElapsed + NavStep <= t.due
  /\ navElapsed' = navElapsed + NavStep
  /\ UNCHANGED <<navPc, navContext, navListener, navTimers, navUpdate, navTab,
                 navOutcome, navLog>>
  /\ UNCHANGED nonNavVars

NavNext ==
  \/ Navigate
  \/ TabUpdated
  \/ TabRemoved
  \/ UpdateCallback
  \/ TimeoutTimer
  \/ TabsGetCallback
  \/ ResolveTimer
  \/ NavTick

\* ------------------------------------- Action State Tracker on its own
\* (core/element.ts, ActionStateManager).  After some actions performed by
\* callDOMAction, its operations are called in any order on the first few
\* ids.  Date.now() is taken to advance between two finished actions.

RETAINED_ACTIONS == 10

\* Ids the tracker sees, ids the operations are called on freely, callbacks
\* registered, and completeAction / failAction calls made outside callDOMAction
MaxTracked == 11
MaxFreeIds == 2
MaxCallbacks == 2
MaxFreeFinishes == 3
\* Polls of one waitForAllActions call that are followed
MaxWaitPolls == 3

TrackIds == 1..MaxTracked
FreeIds == 1..MaxFreeIds
CbIds == 1..MaxCallbacks

NoTrackedState == [status |-> "none", error |-> NoError]
NoOutcome == [set |-> FALSE, success |-> FALSE, error |-> NoError]
NoRegistration == [id |-> NoAction, before |-> FALSE]
TrackerError == <<"error">>

NoWait == [pc |-> "none", for |-> NoAction, done |-> FALSE, polls |-> 0]

TkInit ==
  /\ tkStates = [i \in TrackIds |-> NoTrackedState]
  /\ tkEndTime = [i \in TrackIds |-> 0]
  /\ tkActive = NoAction
  /\ tkCallbacks = [i \in TrackIds |-> <<>>]
  /\ tkClock = 0
  /\ tkGateway = [id |-> 0, pc |-> "idle", direct |-> FALSE]
  /\ tkLog = [invoked |-> [c \in CbIds |-> <<>>],
              registered |-> [c \in CbIds |-> NoRegistration],
              first |-> [i \in TrackIds |-> NoOutcome],
              finishes |-> 0,
              waited |-> [c \in CbIds |-> "none"]]
  /\ tkWait = NoWait

IsFinishedStatus(st) == st \in {"completed", "failed"}

\* notifyCallbacks: the callbacks left for the id after the notification
NotifyCallbacks_KeepsCallbacks(callbacks, id) == callbacks
NotifyCallbacks(callbacks, id) == [callbacks EXCEPT ![id] = <<>>]

\* notifyCallbacks: every callback registered for the id is called with the
\* outcome
InvokedAfter(invoked, callbacks, id, success, error) ==
  [c \in CbIds |->
     IF \E k \in 1..Len(callbacks[id]) : callbacks[id][k] = c
       THEN Append(invoked[c], [success |-> success, error |-> error])
       ELSE invoked[c]]

\* startAction
TrackerStart(id) ==
  /\ tkStates' = StartActionStates(tkStates, id)
  /\ tkEndTime' = [tkEndTime EXCEPT ![id] = 0]
  /\ tkActive' = StartActionActive(tkActive, id)
  /\ UNCHANGED <<tkCallbacks, tkClock>>

\* setActionInProgress
TrackerProgress(id) ==
  /\ tkStates' = SetActionInProgress(tkStates, id)
  /\ UNCHANGED <<tkEndTime, tkActive, tkCallbacks, tkClock>>

\* completeAction (success) and failAction: nothing happens for an id the
\* tracker does not hold
TrackerFinish(id, success, error) ==
  IF tkStates[id].status # "none"
    THEN /\ tkStates' = IF success THEN CompleteActionStates(tkStates, id)
                                   ELSE FailActionStates(tkStates, id, error)
         /\ tkClock' = tkClock + 1
         /\ tkEndTime' = [tkEndTime EXCEPT ![id] = tkClock + 1]
         /\ tkActive' = ClearActive(tkStates, tkActive, id)
         /\ tkCallbacks' = NotifyCallbacks(tkCallbacks, id)
         /\ tkLog' = [tkLog EXCEPT
                        !.invoked = InvokedAfter(@, tkCallbacks, id, success,
                                                 IF success THEN NoError ELSE error),
                        !.first[id] = IF @.set THEN @
                                      ELSE [set |-> TRUE, success |-> success,
                                            error |-> IF success THEN NoError ELSE error],
                        !.finishes = IF tkGateway.pc = "idle" THEN @ + 1 ELSE @]
         /\ tkWait' = IF tkWait.pc = "polling" /\ tkWait.for = id
                         THEN [tkWait EXCEPT !.done = TRUE] ELSE tkWait
    ELSE UNCHANGED <<tkStates, tkClock, tkEndTime, tkActive, tkCallbacks, tkLog, tkWait>>

\* startAction called on its own
StartAction ==
  /\ tkGateway.pc = "idle"
  /\ \E id \in FreeIds : TrackerStart(id)
  /\ tkGateway' = [tkGateway EXCEPT !.direct = TRUE]
  /\ UNCHANGED tkLog
  /\ UNCHANGED tkWait
  /\ UNCHANGED nonTkVars

\* setActionInProgress called on its own
SetInProgress ==
  /\ tkGateway.pc = "idle"
  /\ \E id \in FreeIds : TrackerProgress(id)
  /\ tkGateway' = [tkGateway EXCEPT !.direct = TRUE]
  /\ UNCHANGED tkLog
  /\ UNCHANGED tkWait
  /\ UNCHANGED nonTkVars

\* completeAction called on its own
CompleteAction ==
  /\ tkGateway.pc = "idle"
  /\ tkLog.finishes < MaxFreeFinishes
  /\ \E id \in FreeIds : TrackerFinish(id, TRUE, NoError)
  /\ tkGateway' = [tkGateway EXCEPT !.direct = TRUE]
  /\ UNCHANGED nonTkVars

\* failAction called on its own
FailAction ==
  /\ tkGateway.pc = "idle"
  /\ tkLog.finishes < MaxFreeFinishes
  /\ \E id \in FreeIds : TrackerFinish(id, FALSE, TrackerError)
  /\ tkGateway' = [tkGateway EXCEPT !.direct = TRUE]
  /\ UNCHANGED nonTkVars

\* onActionComplete: one more callback for the id
OnActionComplete ==
  /\ tkGateway.pc = "idle"
  /\ tkGateway' = [tkGateway EXCEPT !.direct = TRUE]
  /\ \E id \in FreeIds, c \in CbIds :
       /\ tkLog.registered[c] = NoRegistration
       /\ \A b \in CbIds : b < c => tkLog.registered[b] # NoRegistration
       /\ tkCallbacks' = [tkCallbacks EXCEPT ![id] = Append(@, c)]
       /\ tkLog' = [tkLog EXCEPT !.registered[c] =
                      [id |-> id, before |-> ~tkLog.first[id].set]]
  /\ UNCHANGED <<tkStates, tkEndTime, tkActive, tkClock>>
  /\ UNCHANGED tkWait
  /\ UNCHANGED nonTkVars

\* waitForAction, lines 208-213: what the call does for the state it finds:
\* it resolves at once for a finished action, otherwise it registers a
\* callback that resolves the promise
WaitForActionPath(state) ==
  IF state.status = "completed" THEN "true"
  ELSE IF state.status = "failed" THEN "false"
  ELSE "callback"

\* waitForAction(id) for an action that has been started; the promise is the
\* next callback id
WaitForAction ==
  /\ \E id \in FreeIds, c \in CbIds :
       /\ tkStates[id].status # "none" \/ tkLog.first[id].set
       /\ tkLog.registered[c] = NoRegistration
       /\ \A b \in CbIds : b < c => tkLog.registered[b] # NoRegistration
       /\ tkCallbacks' = IF WaitForActionPath(tkStates[id]) = "callback"
                           THEN [tkCallbacks EXCEPT ![id] = Append(@, c)]
                           ELSE tkCallbacks
       /\ tkLog' = [tkLog EXCEPT
                      !.registered[c] = [id |-> id, before |-> ~tkLog.first[id].set],
                      !.waited[c] = WaitForActionPath(tkStates[id])]
  /\ UNCHANGED <<tkStates, tkEndTime, tkActive, tkClock, tkGateway, tkWait>>
  /\ UNCHANGED nonTkVars

\* What became of the promise of a waitForAction call: "pending" until its
\* callback is invoked
WaitForActionResult(log, c) ==
  IF log.waited[c] # "callback" THEN log.waited[c]
  ELSE IF log.invoked[c] = <<>> THEN "pending"
  ELSE IF log.invoked[c][1].success THEN "true" ELSE "false"

\* cleanup: the ids it removes, the oldest finished ones beyond the last
\* RETAINED_ACTIONS
TrimmedIds(states, endTime) ==
  LET completed == { i \in TrackIds : IsFinishedStatus(states[i].status) }
      extra == Cardinality(completed) - RETAINED_ACTIONS
  IN IF extra > 0
       THEN { i \in completed :
                Cardinality({ j \in completed : endTime[j] < endTime[i] }) < extra }
       ELSE {}

\* cleanup
Cleanup ==
  /\ tkGateway.pc = "idle"
  /\ tkGateway' = [tkGateway EXCEPT !.direct = TRUE]
  /\ LET toRemove == TrimmedIds(tkStates, tkEndTime)
     IN /\ tkStates' = [i \in TrackIds |->
                          IF i \in toRemove THEN NoTrackedState ELSE tkStates[i]]
        /\ tkEndTime' = [i \in TrackIds |-> IF i \in toRemove THEN 0 ELSE tkEndTime[i]]
        /\ tkCallbacks' = [i \in TrackIds |->
                             IF i \in toRemove THEN <<>> ELSE tkCallbacks[i]]
  /\ UNCHANGED <<tkActive, tkClock, tkLog>>
  /\ UNCHANGED tkWait
  /\ UNCHANGED nonTkVars

\* callDOMAction draws an id and calls startAction; the actions are followed
\* up to the first call made to the tracker from elsewhere
GatewayStart ==
  /\ tkGateway.pc = "idle"
  /\ ~tkGateway.direct
  /\ tkGateway.id < MaxTracked
  /\ tkGateway' = [tkGateway EXCEPT !.id = @ + 1, !.pc = "ctx"]
  /\ TrackerStart(tkGateway.id + 1)
  /\ UNCHANGED tkLog
  /\ UNCHANGED tkWait
  /\ UNCHANGED nonTkVars

\* callDOMAction calls setActionInProgress
GatewayProgress ==
  /\ tkGateway.pc = "ctx"
  /\ tkGateway' = [tkGateway EXCEPT !.pc = "exec"]
  /\ TrackerProgress(tkGateway.id)
  /\ UNCHANGED tkLog
  /\ UNCHANGED tkWait
  /\ UNCHANGED nonTkVars

\* callDOMAction after the executor resolved: completeAction
GatewayComplete ==
  /\ tkGateway.pc = "exec"
  /\ tkGateway' = [tkGateway EXCEPT !.pc = "idle"]
  /\ TrackerFinish(tkGateway.id, TRUE, NoError)
  /\ UNCHANGED nonTkVars

\* callDOMAction after the executor threw: failAction
GatewayFail ==
  /\ tkGateway.pc = "exec"
  /\ tkGateway' = [tkGateway EXCEPT !.pc = "idle"]
  /\ TrackerFinish(tkGateway.id, FALSE, BuildErrorMessage(ExecError))
  /\ UNCHANGED nonTkVars

\* waitForAllActions is called: it resolves at once when no action is active
WaitForAllActions ==
  /\ tkWait.pc = "none"
  /\ tkWait' = IF HasActiveActionOf(tkActive)
                 THEN [pc |-> "polling", for |-> tkActive, done |-> FALSE, polls |-> 0]
                 ELSE [pc |-> "resolved", for |-> NoAction, done |-> FALSE, polls |-> 0]
  /\ UNCHANGED <<tkStates, tkEndTime, tkActive, tkCallbacks, tkClock, tkGateway, tkLog>>
  /\ UNCHANGED nonTkVars

\* setTimeout(checkComplete, 50) fires: checkComplete looks again
CheckComplete ==
  /\ tkWait.pc = "polling"
  /\ tkWait.polls < MaxWaitPolls
  /\ tkWait' = IF HasActiveActionOf(tkActive)
                 THEN [tkWait EXCEPT !.polls = @ + 1]
                 ELSE [tkWait EXCEPT !.pc = "resolved", !.polls = @ + 1]
  /\ UNCHANGED <<tkStates, tkEndTime, tkActive, tkCallbacks, tkClock, tkGateway, tkLog>>
  /\ UNCHANGED nonTkVars

\* The operations of the tracker in any order, among actions that succeed
TrackerNext ==
  \/ StartAction
  \/ SetInProgress
  \/ CompleteAction
  \/ FailAction
  \/ OnActionComplete
  \/ Cleanup
  \/ GatewayStart
  \/ GatewayProgress
  \/ GatewayComplete

\* One call of waitForAllActions among operations of the tracker
WaitNext ==
  \/ StartAction
  \/ SetInProgress
  \/ CompleteAction
  \/ FailAction
  \/ WaitForAllActions
  \/ CheckComplete

\* The tracker as callDOMAction drives it, one action after the other
GatewayNext ==
  \/ GatewayStart
  \/ GatewayProgress
  \/ GatewayComplete
  \/ GatewayFail

\* waitForAction called while callDOMAction performs actions and cleanup runs
WaitForNext ==
  \/ GatewayStart
  \/ GatewayProgress
  \/ GatewayComplete
  \/ GatewayFail
  \/ Cleanup
  \/ WaitForAction

\* ---------------------------------------------------- Element resolution
\* (core/element.ts getElementByNodeId, pages/Content/getAnnotatedDOM.ts,
\* helpers RPC).  The content script keeps the table currentElements of the
\* latest annotation pass; the identity attribute lives on the elements of
\* the page, and the page goes on removing, inserting and cloning elements
\* (cloneNode copies the attributes of the element it copies).

\* Bounds: element objects the page ever has, values Math.random gives, and
\* the numeric ids asked for
MaxNodes == 3
MaxUids == 2
MaxNodeId == 1

Nodes == 1..MaxNodes
NodeIds == 0..MaxNodeId
NoNode == 0
NoUid == 0
\* The selector value made of the RPC's error answer, "[object Object]"
ObjectObject == 0 - 1

NoResolution ==
  [id |-> 0, how |-> "none", uniqueId |-> NoUid, assigned |-> FALSE, again |-> FALSE,
   target |-> NoNode, live |-> FALSE, element |-> NoNode]

RsInit ==
  /\ rsPage = <<1, 2>>
  /\ rsAttr = [n \in Nodes |-> NoUid]
  /\ currentElements = <<>>
  /\ rsNextNode = 3
  /\ rsNextUid = 1
  /\ rsFirst = [i \in NodeIds |-> NoUid]
  /\ rsLast = NoResolution

\* getAnnotatedDOM: the table is rebuilt from the document
GetAnnotatedDOM ==
  /\ currentElements' = rsPage
  /\ rsFirst' = [i \in NodeIds |-> NoUid]
  /\ rsLast' = NoResolution
  /\ UNCHANGED <<rsPage, rsAttr, rsNextNode, rsNextUid>>
  /\ UNCHANGED nonRsVars

\* currentElements[id]
TableElement(table, id) == IF id + 1 <= Len(table) THEN table[id + 1] ELSE NoNode

\* getUniqueElementSelectorId: the attribute is read back, and set only when
\* the element has none; an id outside the table makes the function throw
GetUniqueElementSelectorId_AlwaysNew(table, attr, fresh, id) ==
  LET element == TableElement(table, id)
  IN IF element = NoNode
       THEN [threw |-> TRUE, uniqueId |-> NoUid, assigned |-> FALSE, attr |-> attr]
       ELSE [threw |-> FALSE, uniqueId |-> fresh, assigned |-> TRUE,
             attr |-> [attr EXCEPT ![element] = fresh]]
GetUniqueElementSelectorId(table, attr, fresh, id) ==
  LET element == TableElement(table, id)
  IN IF element = NoNode
       THEN [threw |-> TRUE, uniqueId |-> NoUid, assigned |-> FALSE, attr |-> attr]
       ELSE IF attr[element] # NoUid
         THEN [threw |-> FALSE, uniqueId |-> attr[element], assigned |-> FALSE, attr |-> attr]
         ELSE [threw |-> FALSE, uniqueId |-> fresh, assigned |-> TRUE,
               attr |-> [attr EXCEPT ![element] = fresh]]

\* watchForRPCRequests: what the caller of callRPC receives; an exception of
\* the method comes back as the object {error}
RpcResponse(answer) == IF answer.threw THEN ObjectObject ELSE answer.uniqueId

\* document.querySelector('[selector="value"]'): the first element of the
\* document that carries the value
QuerySelector(page, attr, value) ==
  IF \E i \in 1..Len(page) : attr[page[i]] = value
    THEN page[CHOOSE i \in 1..Len(page) :
                /\ attr[page[i]] = value
                /\ \A j \in 1..(i - 1) : attr[page[j]] # value]
    ELSE NoNode

\* What getElementByNodeId does with the outcome of its two steps
ResolutionOutcome(rpc, found) ==
  IF rpc = "fails" THEN "failed"
  ELSE IF found = NoNode THEN "notFound"
  ELSE "resolved"

\* getElementByNodeId(id)
GetElementByNodeId ==
  /\ \E id \in NodeIds, rpc \in {"answers", "fails"} :
       LET answer == GetUniqueElementSelectorId(currentElements, rsAttr, rsNextUid, id)
           target == TableElement(currentElements, id)
           found == QuerySelector(rsPage, answer.attr, RpcResponse(answer))
       IN IF rpc = "fails"
            THEN /\ rsLast' = [NoResolution EXCEPT !.id = id, !.how = ResolutionOutcome(rpc, NoNode),
                                                  !.target = target]
                 /\ UNCHANGED <<rsAttr, rsNextUid, rsFirst>>
            ELSE /\ answer.assigned => rsNextUid <= MaxUids
                 /\ rsAttr' = answer.attr
                 /\ rsNextUid' = IF answer.assigned THEN rsNextUid + 1 ELSE rsNextUid
                 /\ rsFirst' = IF rsFirst[id] = NoUid
                                 THEN [rsFirst EXCEPT ![id] = answer.uniqueId]
                                 ELSE rsFirst
                 /\ rsLast' = [id |-> id, how |-> ResolutionOutcome(rpc, found),
                               uniqueId |-> answer.uniqueId, assigned |-> answer.assigned,
                               again |-> rsFirst[id] # NoUid, target |-> target,
                               live |-> \E i \in 1..Len(rsPage) : rsPage[i] = target,
                               element |-> found]
  /\ UNCHANGED <<rsPage, currentElements, rsNextNode>>
  /\ UNCHANGED nonRsVars

\* The sequence without its i-th element, and with one more before position i
Without(seq, i) == SubSeq(seq, 1, i - 1) \o SubSeq(seq, i + 1, Len(seq))
InsertAt(seq, i, e) == SubSeq(seq, 1, i - 1) \o <<e>> \o SubSeq(seq, i, Len(seq))

\* The page removes an element from the document
PageRemove ==
  /\ \E i \in 1..Len(rsPage) : rsPage' = Without(rsPage, i)
  /\ UNCHANGED <<rsAttr, currentElements, rsNextNode, rsNextUid, rsFirst, rsLast>>
  /\ UNCHANGED nonRsVars

\* The page adds a new element to the document
PageInsert ==
  /\ rsNextNode <= MaxNodes
  /\ \E i \in 1..(Len(rsPage) + 1) : rsPage' = InsertAt(rsPage, i, rsNextNode)
  /\ rsNextNode' = rsNextNode + 1
  /\ UNCHANGED <<rsAttr, currentElements, rsNextUid, rsFirst, rsLast>>
  /\ UNCHANGED nonRsVars

\* The page adds a copy of one of its elements; the copy has the attributes
\* of the original
PageClone ==
  /\ rsNextNode <= MaxNodes
  /\ \E o \in 1..Len(rsPage), i \in 1..(Len(rsPage) + 1) :
       /\ rsPage' = InsertAt(rsPage, i, rsNextNode)
       /\ rsAttr' = [rsAttr EXCEPT ![rsNextNode] = rsAttr[rsPage[o]]]
  /\ rsNextNode' = rsNextNode + 1
  /\ UNCHANGED <<currentElements, rsNextUid, rsFirst, rsLast>>
  /\ UNCHANGED nonRsVars

RsNext ==
  \/ GetAnnotatedDOM
  \/ GetElementByNodeId
  \/ PageRemove
  \/ PageInsert
  \/ PageClone

\* ---------------------------------------------------------------- waiting
\* (actions/waiting.ts).  Time is counted in ms from the call; the timer
\* fires exactly when it is due.

maxWaitSeconds == 300

\* Bounds: the durations asked for, in seconds, and the step of the clock
WaitRequests == {0 - 1, 0, 1, 2, 299, 300, 301, 1000}
WaitStep == 1000

NoWaitReturn == [how |-> "none", at |-> 0]

WtInit ==
  /\ wtPc = "idle"
  /\ wtSeconds = 0
  /\ wtElapsed = 0
  /\ wtTimer = 0
  /\ wtReturn = NoWaitReturn

\* waiting, lines 19-21: the input that is refused
InvalidWaitDuration(seconds) == seconds < 0

\* waiting, lines 24-33: the delay of the timer
WaitMs(seconds) == Min(seconds, maxWaitSeconds) * 1000

\* waiting(payload) up to the return of the promise
Waiting ==
  /\ wtPc = "idle"
  /\ \E seconds \in WaitRequests :
       /\ wtSeconds' = seconds
       /\ IF InvalidWaitDuration(seconds)
            THEN /\ wtReturn' = [how |-> "threw", at |-> 0]
                 /\ UNCHANGED <<wtPc, wtTimer>>
            ELSE /\ wtReturn' = NoWaitReturn
                 /\ wtPc' = "waiting"
                 /\ wtTimer' = WaitMs(seconds)
  /\ wtElapsed' = 0
  /\ UNCHANGED nonWtVars

\* Time passes while the timer is not due
WaitTick ==
  /\ wtPc = "waiting"
  /\ wtElapsed < wtTimer
  /\ wtElapsed' = wtElapsed + WaitStep
  /\ UNCHANGED <<wtPc, wtSeconds, wtTimer, wtReturn>>
  /\ UNCHANGED nonWtVars

\* The callback of setTimeout: the promise resolves
WaitTimer ==
  /\ wtPc = "waiting"
  /\ wtElapsed >= wtTimer
  /\ wtReturn' = [how |-> "resolved", at |-> wtElapsed]
  /\ wtPc' = "idle"
  /\ UNCHANGED <<wtSeconds, wtElapsed, wtTimer>>
  /\ UNCHANGED nonWtVars

WtNext ==
  \/ Waiting
  \/ WaitTick
  \/ WaitTimer

\* --------------------------------------------------- mutation observer
\* (core/stability.ts, the function injected by ensurePageStability, lines
\* 190-226).  The observer is installed once per document; time advances in
\* steps of POLL_INTERVAL and the reset timer fires exactly when it is due.

RESET_DELAY == 100
\* How many significant mutation batches the page produces before it stops
MaxBatches == 6
NoTimer == 0 - 1

MoInit ==
  /\ mutationCount = 0
  /\ resetTimer = NoTimer
  /\ moBatches = 0
  /\ moQuiescent = FALSE
  /\ moReported = "none"

\* The callback of the reset timer, lines 210-213: what becomes of the counter
CountAfterReset(count) == Max(0, count - 1)

\* The MutationObserver callback for a batch with a significant mutation:
\* the counter goes up and the reset timer is set anew
MutationBatch ==
  /\ ~moQuiescent
  /\ moBatches < MaxBatches
  /\ moBatches' = moBatches + 1
  /\ mutationCount' = mutationCount + 1
  /\ resetTimer' = RESET_DELAY
  /\ UNCHANGED <<moQuiescent, moReported>>
  /\ UNCHANGED nonMoVars

\* The page stops mutating
PageQuiesces ==
  /\ ~moQuiescent
  /\ moQuiescent' = TRUE
  /\ UNCHANGED <<mutationCount, resetTimer, moBatches, moReported>>
  /\ UNCHANGED nonMoVars

\* Time passes while the reset timer is pending
MoTick ==
  /\ resetTimer > 0
  /\ resetTimer' = resetTimer - POLL_INTERVAL
  /\ UNCHANGED <<mutationCount, moBatches, moQuiescent, moReported>>
  /\ UNCHANGED nonMoVars

\* The callback of the reset timer fires
ResetTimer ==
  /\ resetTimer = 0
  /\ mutationCount' = CountAfterReset(mutationCount)
  /\ resetTimer' = NoTimer
  /\ UNCHANGED <<moBatches, moQuiescent, moReported>>
  /\ UNCHANGED nonMoVars

\* checkStability, lines 78-82: a poll of a page that is stable in every
\* other respect reads the counter
MutationPoll ==
  /\ moReported' = IF mutationCount > MAX_MUTATION_COUNT
                     THEN "high-mutation-count" ELSE "stable"
  /\ UNCHANGED <<mutationCount, resetTimer, moBatches, moQuiescent>>
  /\ UNCHANGED nonMoVars

MoNext ==
  \/ MutationBatch
  \/ PageQuiesces
  \/ MoTick
  \/ ResetTimer
  \/ MutationPoll

\* -------------------------------------------------------- target tabs
\* (browser/pageRPC.ts callRPC, core/element.ts executeScript, and the tab
\* runTask records).  One action is getElementByNodeId (the RPC, then the
\* lookup script) followed by the scripts of the executor; the user may
\* activate another tab between any two of them.

\* Tabs of the current window; the last one shows a chrome:// page
MaxTabs == 4
\* Scripts one action injects after the lookup
MaxScripts == 3
WindowTabs == 1..MaxTabs
\* currentTask.tabId before a task recorded a tab
NoTab == 0 - 1
IsChromeUrl(tab) == tab = MaxTabs

NewTargetLog == [rpc |-> NoTab, scripts |-> {}, injected |-> 0]

TgInit ==
  /\ tabId = NoTab
  /\ activeTab = 1
  /\ tgPc = "idle"
  /\ tgLog = NewTargetLog

\* callRPC, lines 22-31: the tabs the message can go to
RpcTargets(task, active) ==
  IF IsChromeUrl(active) THEN WindowTabs \ {active} ELSE {active}

\* executeScript, lines 15-22: the tab the script is injected into
ScriptTarget(task, active) == task

\* runTask records the active tab (currentTask.ts, lines 166-169)
RecordTab ==
  /\ tgPc \in {"idle", "ready"}
  /\ ~IsChromeUrl(activeTab)
  /\ tabId' = activeTab
  /\ tgPc' = "ready"
  /\ tgLog' = NewTargetLog
  /\ UNCHANGED activeTab
  /\ UNCHANGED nonTgVars

\* getElementByNodeId: callRPC('getUniqueElementSelectorId') opens the action
CallRPC ==
  /\ tgPc = "ready"
  /\ \E target \in RpcTargets(tabId, activeTab) :
       tgLog' = [NewTargetLog EXCEPT !.rpc = target]
  /\ tgPc' = "lookup"
  /\ UNCHANGED <<tabId, activeTab>>
  /\ UNCHANGED nonTgVars

\* executeScript: the lookup of getElementByNodeId, then the scripts of the
\* executor
ExecuteScript ==
  /\ tgPc \in {"lookup", "scripts"}
  /\ tgLog' = [tgLog EXCEPT !.scripts = @ \cup {ScriptTarget(tabId, activeTab)},
                            !.injected = IF tgPc = "lookup" THEN 0 ELSE @ + 1]
  /\ tgPc' = IF tgPc = "scripts" /\ tgLog.injected + 1 >= MaxScripts
               THEN "ready" ELSE "scripts"
  /\ UNCHANGED <<tabId, activeTab>>
  /\ UNCHANGED nonTgVars

\* The user activates another tab of the window
ActivateTab ==
  /\ \E tab \in WindowTabs \ {activeTab} : activeTab' = tab
  /\ UNCHANGED <<tabId, tgPc, tgLog>>
  /\ UNCHANGED nonTgVars

TgNext ==
  \/ RecordTab
  \/ CallRPC
  \/ ExecuteScript
  \/ ActivateTab

\* ------------------------------------------------------- specifications

Init == OrchInit /\ StabInit /\ ClickInit /\ ScrollInit /\ CoordInit /\ SvInit
        /\ NavInit /\ TkInit /\ RsInit /\ WtInit /\ MoInit
        /\ TgInit

\* The orchestrator with the gateway and the tracker
Next == OrchNext
Spec == Init /\ [][Next]_vars

\* One extension host calling ensurePageStability again and again
SpecStab == Init /\ [][StabNext]_vars

\* click called again and again
SpecClick == Init /\ [][ClickNext]_vars

\* scrollIntoView called again and again
SpecScroll == Init /\ [][ScrollNext]_vars

\* getCenterCoordinates called again and again
SpecCoord == Init /\ [][CoordNext]_vars

\* One call of setValue
SpecSetValue == Init /\ [][SvNext]_vars

\* One call of navigate
SpecNavigate == Init /\ [][NavNext]_vars

\* The tracker's operations called freely
SpecTracker == Init /\ [][TrackerNext]_vars

\* waitForAllActions while the tracker is used
SpecWait == Init /\ [][WaitNext]_vars

\* Actions performed through the gateway only
SpecGateway == Init /\ [][GatewayNext]_vars

\* Elements resolved while the page changes
SpecResolve == Init /\ [][RsNext]_vars

\* waiting called again and again
SpecWaiting == Init /\ [][WtNext]_vars

\* The mutation observer of a page that mutates and then stops; time
\* passes, a due timer fires, and the stability check keeps polling
SpecMutations ==
  /\ Init
  /\ [][MoNext]_vars
  /\ WF_vars(MoTick)
  /\ WF_vars(ResetTimer)
  /\ WF_vars(MutationPoll)

\* waitForAction among the actions of the gateway
SpecWaitFor == Init /\ [][WaitForNext]_vars

\* Actions of a task while the user switches tabs
SpecTargets == Init /\ [][TgNext]_vars

\* ------------------------------------------------------------ properties

\* The ids the tracker holds as pending or in-progress
ActiveIds == {i \in ActionIds : IsActiveStatus(actionStates[i].status)}
\* The ids started (startAction ran) and not yet completed or failed
InFlightIds == {i \in ActionIds : i < nextId /\ finished[i] = 0}

\* C1: at most one action is in flight at any time: the tracker never holds
\* two actions whose status is pending or in-progress.
C1_SingleFlight == Cardinality(ActiveIds) <= 1

\* C2: hasActiveAction() is true at every moment between startAction(id) and
\* the first completeAction(id) or failAction(id), for every id.
C2_ActiveWhileInFlight == InFlightIds # {} => HasActiveAction

\* C3: callDOMAction never throws; it returns success exactly when the
\* executor resolved, and then the tracker entry is completed; it returns
\* failure with an error string exactly when the executor threw, and then the
\* tracker entry is failed and stores that same string; each call ends with
\* exactly one completeAction or failAction for its id.
C3_GatewayResult ==
  /\ ~returned.threw
  /\ returned.id # NoAction =>
       /\ returned.success <=> returned.exec = "resolved"
       /\ returned.success =>
            /\ actionStates[returned.id].status = "completed"
            /\ returned.error = NoError
       /\ ~returned.success =>
            /\ actionStates[returned.id].status = "failed"
            /\ returned.error # NoError
            /\ actionStates[returned.id].error = returned.error
  /\ \A i \in ActionIds :
       /\ finished[i] <= 1
       /\ (i < nextId /\ \A r \in Runs : call[r].id # i) => finished[i] = 1
\* A call returned a failure after an earlier call returned a success.
C3_Witness ==
  /\ returned.id # NoAction
  /\ ~returned.success
  /\ \E i \in ActionIds : actionStates[i].status = "completed"

\* C4: once a run has recorded the failure that brings the number of
\* consecutive failed actions to 3, it halts and goes on to no further
\* iteration (no planning, no dispatch); a successful action leaves the
\* counter at 0.
C4_HaltAtCap ==
  /\ \A r \in Runs : hitCap[r] => pc[r] \in {"waitAfter", "done"}
  /\ (lastActionResult.set /\ lastActionResult.success) => consecutiveFailures = 0

\* C5: ensurePageStability returns within the timeout plus one poll interval
\* in every execution: a call never is still polling later than TIMEOUT after
\* it began, and a call that returned took at most TIMEOUT + POLL_INTERVAL.
C5_BoundedWait ==
  /\ stabPc \in {"check", "sleep"} => clock - startTime <= TIMEOUT + POLL_INTERVAL
  /\ stabReturn.how # "none" => stabReturn.at - stabReturn.began <= TIMEOUT + POLL_INTERVAL

\* C6: in click, when the element at the computed coordinates is not the
\* target but scrollIntoView reported partial success, the primary click is
\* not dispatched at those coordinates and the call goes to the backup method.
C6_HiddenGoesToBackup ==
  (clickLog.visible = "hidden" /\ scrollResult.partialSuccess) =>
     /\ clickLog.primary = "none"
     /\ clickLog.outcome # "none" => clickLog.backup # "none"

\* C7: click throws only after every method is exhausted: whenever it has
\* thrown, the backup method was attempted and failed, or its element lookup
\* failed; a failed primary click alone leaves the call running.
C7_ThrowsOnlyAfterBackup ==
  /\ clickLog.outcome = "threw" =>
       /\ operationContext.backupClickAttempted
       /\ clickLog.backup \in {"lookupFailed", "failed"}
  /\ (clickLog.primary = "failed" /\ clickLog.backup = "none") =>
       clickPc \in {"backup", "backupClick"}
C7_Witness ==
  /\ clickLog.outcome = "threw"
  /\ clickLog.primary = "failed"
  /\ clickLog.backup = "failed"

\* C8: whenever the primary click succeeds, click returns without running
\* the backup method; the backup method runs only if the primary method was
\* skipped or failed.
C8_PrimarySuccessReturns ==
  /\ clickLog.primary = "clicked" =>
       /\ clickPc = "idle"
       /\ clickLog.outcome = "returned"
       /\ clickLog.backup = "none"
       /\ ~operationContext.backupClickAttempted
  /\ operationContext.backupClickAttempted =>
       (clickLog.primary = "failed" \/ ~operationContext.primaryClickAttempted)
C8_Witness ==
  /\ clickLog.primary = "clicked"
  /\ clickLog.outcome = "returned"
  /\ operationContext.primaryClickAttempted

\* C9: scrollIntoView never returns success = true for an element whose
\* bounding box has zero width or zero height, on any path.
C9_NoSuccessForEmptyBox ==
  (scrollReturn.how = "returned" /\ scrollReturn.success) =>
     ~HasNoDimensions(scrollReturn.rect)

\* C10: getCenterCoordinates either returns x and y that are not NaN and lie
\* in 0 .. MAX_COORDINATE_VALUE, or throws after exactly 3 attempts; it never
\* makes a 4th attempt and never throws before the 3rd.
C10_ValidOrThreeAttempts ==
  /\ attemptsMade <= COORD_MAX_RETRIES
  /\ coordReturn.how = "returned" =>
       /\ ~IsNaN(coordReturn.xy.x) /\ ~IsNaN(coordReturn.xy.y)
       /\ LessEq(Num(0), coordReturn.xy.x)
       /\ LessEq(coordReturn.xy.x, Num(MAX_COORDINATE_VALUE))
       /\ LessEq(Num(0), coordReturn.xy.y)
       /\ LessEq(coordReturn.xy.y, Num(MAX_COORDINATE_VALUE))
  /\ coordReturn.how = "threw" => attemptsMade = COORD_MAX_RETRIES
C10_Witness ==
  /\ coordReturn.how = "threw"
  /\ attemptsMade = COORD_MAX_RETRIES
  /\ coordLastError = "Element not in viewport"

\* C14: with a pending fetch or XHR the stability check does not declare the
\* page stable; it declares it only at a poll that is at least the second
\* stable poll in a row and at least MIN_STABLE_TIME after the first of the
\* row, and an unstable poll starts the count again.
C14_StableOnlyAfterQuietStreak ==
  /\ consistentStableChecks <= streak.polls
  /\ stabReturn.how = "stable" =>
       /\ stabReturn.pending = 0
       /\ streak.polls >= CONSISTENT_CHECKS_REQUIRED
       /\ stabReturn.at - streak.since >= MIN_STABLE_TIME
C14_Witness ==
  /\ stabReturn.how = "stable"
  /\ streak.polls = 5
  /\ stabReturn.at - streak.since = MIN_STABLE_TIME
  /\ streak.since > stabReturn.began

\* C15: a call of ensurePageStability that begins less than
\* SKIP_STABILITY_THRESHOLD after the previous check produced its result
\* returns at once without polling; one that begins that long after it or
\* later makes a fresh check.
C15_CacheWindow ==
  (stabReturn.prev > 0 /\ stabReturn.began >= stabReturn.prev) =>
     IF stabReturn.began - stabReturn.prev < SKIP_STABILITY_THRESHOLD
       THEN stabReturn.how = "skipped"
       ELSE stabReturn.how # "skipped"

\* C16: navigate resolves only after a load-complete update of the task's
\* tab was observed and WAIT_AFTER_COMPLETE has passed since; it rejects with
\* the timeout error, carrying the tab's URL and status, only when no such
\* update was observed within NAVIGATION_TIMEOUT; when tabs.update reports an
\* error it rejects at that moment with that error; the promise settles once.
C16_ResolveOrRejectParts ==
  /\ navOutcome.how = "resolved" =>
       /\ navLog.completeAt >= 0
       /\ navOutcome.at >= navLog.completeAt + WAIT_AFTER_COMPLETE
  /\ (navOutcome.how = "rejected" /\ navOutcome.error.kind = "timeout") =>
       /\ navLog.completeAt < 0
       /\ navOutcome.at >= NAVIGATION_TIMEOUT
       /\ navOutcome.error.url \in TabUrls \cup {"unknown"}
       /\ navOutcome.error.status \in TabStatuses \cup {"unknown"}
C16_NavigateOutcomes ==
  /\ C16_ResolveOrRejectParts
  /\ navLog.updateErrorAt >= 0 =>
       /\ navOutcome.how = "rejected"
       /\ navOutcome.error.kind = "update"
       /\ navOutcome.at = navLog.updateErrorAt

\* C17: a run that was interrupted dispatches no new action afterwards,
\* whatever happens later, the start of a new run included.
C17_NoDispatchAfterInterrupt ==
  \A r \in Runs : ~stopLog[r].dispatched

\* C18: the result of an action that was in flight when its run was
\* interrupted is discarded: it changes neither lastActionResult nor
\* consecutiveFailures.
C18_ResultDiscardedAfterInterrupt ==
  \A r \in Runs : ~stopLog[r].stored

\* C19: a callback registered for an id before the action of that id first
\* finishes is invoked exactly once, by that first completeAction (with
\* success) or failAction (with failure and the error), and no later
\* operation of the tracker invokes it again.
C19_CallbackFiresOnce ==
  \A c \in CbIds :
    LET reg == tkLog.registered[c]
        inv == tkLog.invoked[c]
    IN /\ Len(inv) <= 1
       /\ (reg.id # NoAction /\ reg.before /\ tkLog.first[reg.id].set) =>
            inv = << [success |-> tkLog.first[reg.id].success,
                      error |-> tkLog.first[reg.id].error] >>
       /\ (reg.id # NoAction /\ reg.before /\ ~tkLog.first[reg.id].set) => inv = <<>>
C19_Witness ==
  \E c \in CbIds :
    /\ tkLog.registered[c].id = 1
    /\ tkLog.registered[c].before
    /\ tkLog.invoked[c] = << [success |-> FALSE, error |-> TrackerError] >>
    /\ tkStates[1].status = "completed"
    /\ tkLog.finishes = MaxFreeFinishes

\* C20: after any sequence of actions performed through the gateway the
\* tracker holds at most RETAINED_ACTIONS completed or failed entries.
C20_RetainsAtMostTen ==
  Cardinality({ i \in TrackIds : IsFinishedStatus(tkStates[i].status) }) <= RETAINED_ACTIONS

\* C21: waitForAllActions called with no action active resolves at once,
\* without a poll; called while an action is active it does not resolve
\* before that action was completed or failed.
C21_WaitsForActiveAction ==
  tkWait.pc = "resolved" =>
     IF tkWait.for = NoAction THEN tkWait.polls = 0 ELSE tkWait.done

\* C24: two resolutions of one numeric id with no annotation pass between
\* them give the same uniqueId, and the later one assigns nothing.
C24_SameUniqueIdTwice ==
  (rsLast.how # "none" /\ rsLast.again) =>
     /\ rsLast.uniqueId = rsFirst[rsLast.id]
     /\ ~rsLast.assigned

\* C24 witness: an id resolved a second time after its first resolution
\* assigned the attribute.
C24_Witness ==
  /\ rsLast.how = "resolved"
  /\ rsLast.again
  /\ rsLast.uniqueId # NoUid

\* C25: a resolution gives the element that carried the id in the latest
\* annotation pass, and when that element is outside the table or no longer
\* in the document the call fails with 'not found'.
C25_ResolvesTableElementOrNotFound ==
  /\ rsLast.how = "resolved" => rsLast.element = rsLast.target
  /\ (rsLast.how \in {"resolved", "notFound"} /\ ~rsLast.live) => rsLast.how = "notFound"

\* Whether an error message has the given part
Contains(message, part) == \E i \in 1..Len(message) : message[i] = part

\* C22: a click on an element that cannot be found ends in a failure whose
\* error string has 'not found' and the element id, after the scroll, the
\* three coordinate attempts and the backup lookup.
C22_AbsentElementNotFound ==
  (clickLog.element = "absent" /\ clickLog.outcome # "none") =>
     LET result == [ResultOf(NoCall, clickLog.outcome) EXCEPT
                      !.error = BuildErrorMessage(clickLog.thrown)]
     IN /\ clickLog.outcome = "threw"
        /\ ~result.success
        /\ Contains(result.error, "not found in DOM")
        /\ Contains(result.error, ToString(ClickedElementId))
        /\ operationContext.scrollAttempted
        /\ retryCount = MAX_COORDINATE_RETRIES
        /\ clickLog.backup = "lookupFailed"

\* C22 witness: the click on an absent element has thrown.
C22_Witness ==
  /\ clickLog.element = "absent"
  /\ clickLog.outcome = "threw"
  /\ clickLog.backup = "lookupFailed"

\* C27: whenever click has returned or thrown, hideCursor was called in
\* that call.
C27_HidesCursorOnEveryExit ==
  clickLog.outcome # "none" => clickLog.hideCursor >= 1

\* C27 witness: a click that threw after both methods failed, with the
\* cursor hidden.
C27_Witness ==
  /\ clickLog.outcome = "threw"
  /\ clickLog.primary = "failed"
  /\ clickLog.hideCursor = 1

\* C23: every call of waiting resolves after its duration clamped to
\* [0, 300] seconds.
C23_ResolvesAfterClampedDuration ==
  wtReturn.how # "none" =>
     /\ wtReturn.how = "resolved"
     /\ wtReturn.at = Max(0, Min(wtSeconds, 300)) * 1000

\* C26: success is returned only for an element that an attempt or the
\* last resort saw within the viewport and its widest margin, and a failure
\* has partialSuccess exactly when some attempt of the call measured
\* progress.
C26_SuccessAndPartialSuccess ==
  scrollReturn.how = "returned" =>
     /\ scrollReturn.success =>
          /\ scrollReturn.path \in {"shortcut", "verified", "lastResort"}
          /\ scrollReturn.rect # NoRect
          /\ LastResortScript(TRUE, scrollReturn.rect)
     /\ ~scrollReturn.success => (scrollReturn.partialSuccess <=> anyProgressMade)

\* The sleeps of a call that found no success: the delay after each failed
\* attempt so far
BackoffSleeps == <<50, 60, 72>>

C28_OnlyExecutableReachGateway ==
  [][\A r \in Runs :
       /\ call'[r].type \in ActionNames \cup {"none"}
       /\ (pc[r] = "planning" /\ pc'[r] # "planning") =>
            /\ parsed'[r] \in {"finish", "fail", "respond", "memory"} =>
                 /\ call' = call
                 /\ nextId' = nextId
                 /\ actionStates' = actionStates
                 /\ activeAction' = activeAction
            /\ parsed'[r] = "finish" => (status' = "success" /\ pc'[r] = "done")
            /\ parsed'[r] = "fail" => (status' = "error" /\ pc'[r] = "done")
            /\ parsed'[r] = "respond" => (status' = "idle" /\ pc'[r] = "done")
            /\ parsed'[r] = "memory" =>
                 (pc'[r] = "done" => consecutiveFailures >= MAX_CONSECUTIVE_FAILURES)
            /\ call'[r] # call[r] => call'[r].type = parsed'[r]]_vars

\* C28 witness: a run ended by a finish, with the status it leaves.
C28_Witness ==
  \E r \in Runs : parsed[r] = "finish" /\ pc[r] = "done" /\ status = "success"

\* C29: every call of setValue that is past its preparation has attempted
\* the primary method, whatever scroll, click, direct focus and coordinates
\* did; a rejection comes only after both methods were attempted; the direct
\* focus was tried exactly when the click failed.
C29_PrimaryAfterAnyPreparation ==
  /\ svPc \notin {"idle", "prepare"} => svContext.primarySetValueAttempted
  /\ svReturn.how = "rejected" =>
       (svContext.primarySetValueAttempted /\ svContext.fallbackSetValueAttempted)
  /\ svContext.directFocus # "none" <=>
       (svContext.clickAttempted /\ ~svContext.clickSuccess)

\* C29 witness: a call that resolved by the primary method after the scroll,
\* the click, the direct focus and the coordinates all failed.
C29_Witness ==
  /\ svReturn.how = "resolved"
  /\ svReturn.path = "primary"
  /\ ~svContext.scrollSuccess
  /\ ~svContext.clickSuccess
  /\ svContext.directFocus = "threw"
  /\ ~svContext.coordinatesObtained

\* C31: when setValue rejects because the primary and the fallback method
\* both failed, the 'Last error' of its message is the error of one of the
\* two typing methods, and the message has one.
C31_LastErrorIsTypingFailure ==
  (svReturn.how = "rejected" /\ svContext.primarySetValueAttempted
     /\ svContext.fallbackSetValueAttempted)
    => /\ svReturn.lastError # NoLastError
       /\ svReturn.lastError \in {svContext.primaryError, svReturn.fallbackError}

\* C32: once the page has stopped mutating, the mutation counter eventually
\* is at the threshold or below and a poll reports the page stable.
C32_QuiescentPageBecomesStable ==
  moQuiescent ~> (mutationCount <= MAX_MUTATION_COUNT /\ moReported = "stable")

\* C33: a run halts on the consecutive-failure cap only after 3 actions
\* failed consecutively within that run.
C33_CapCountsOwnFailures ==
  \A r \in Runs :
    runLog[r].haltedOnCap => runLog[r].failed >= MAX_CONSECUTIVE_FAILURES

\* C34: whenever a run of runTask leaves its loop and returns, the task
\* status is not 'running' at that moment.
C34_ReturnLeavesNotRunning ==
  [][\A r \in Runs :
       (pc[r] # "done" /\ pc'[r] = "done") => status' # "running"]_vars

\* C35: after any sequence of tracker operations, hasActiveAction() is true
\* if and only if some tracked action is pending or in-progress.
C35_ActiveIffUnfinishedAction ==
  HasActiveActionOf(tkActive) <=> \E i \in TrackIds : IsActiveStatus(tkStates[i].status)

\* The order of the statuses of a tracked action
StatusRank(st) ==
  IF st = "pending" THEN 1 ELSE IF st = "in-progress" THEN 2 ELSE 3

\* C36: setActionInProgress, completeAction and failAction move the status
\* of a tracked action forward only, and leave the status, endTime and error
\* of a completed or failed action as they are.
C36_StatusMovesForwardOnly ==
  [][(SetInProgress \/ CompleteAction \/ FailAction)
       => \A i \in TrackIds :
            /\ tkStates[i].status # "none"
                 => StatusRank(tkStates'[i].status) >= StatusRank(tkStates[i].status)
            /\ IsFinishedStatus(tkStates[i].status)
                 => /\ tkStates'[i] = tkStates[i]
                    /\ tkEndTime'[i] = tkEndTime[i]]_vars

\* C37: a call of ensurePageStability is skipped only when the check before
\* it observed the page stable, and a check that ended by timeout does not
\* leave the cached result at stable.
C37_CacheHoldsObservedStability ==
  /\ stabReturn.how = "skipped" => stabReturn.prevHow = "stable"
  /\ stabReturn.how = "timeout" => ~lastStabilityResult

\* C38: within one action, the RPC that resolves the element and every
\* injected script go to the tab recorded for the task.
C38_OperationsTargetTaskTab ==
  /\ tgLog.rpc \in {NoTab, tabId}
  /\ tgLog.scripts \subseteq {tabId}

\* C39: one click action triggers the click handler of its target at most
\* once, on the primary path and on every path of the backup method.
C39_AtMostOneClick == clickLog.clicks <= 1

\* C40: once a started action has finished, no waitForAction call for it is
\* pending: the call has resolved with true for a completed action and with
\* false for a failed one, whether it was made before or after the action
\* finished and before or after cleanup.
C40_WaitForActionResolves ==
  \A c \in CbIds :
    LET reg == tkLog.registered[c]
    IN (tkLog.waited[c] # "none" /\ tkLog.first[reg.id].set) =>
         WaitForActionResult(tkLog, c)
           = (IF tkLog.first[reg.id].success THEN "true" ELSE "false")

\* Newlines among the first n characters of a value
RECURSIVE NewlinesIn(_, _)
NewlinesIn(value, n) ==
  IF n = 0 THEN 0 ELSE NewlinesIn(value, n - 1) + (IF value[n] = "\n" THEN 1 ELSE 0)

\* C11: for a value of L characters without a newline, setValue on the
\* primary path resolves only once all L characters and the change event
\* have been dispatched, not before L x 50 ms have passed since the call
\* and, when nothing failed, before L x 50 ms + 500 ms have passed.
C11_ResolvesInTypingWindow ==
  (svReturn.how = "resolved" /\ svReturn.path = "primary" /\ ~HasNewline(svValue)) =>
     /\ svPage.typed = Len(svValue)
     /\ Len(svValue) > 0 => svPage.changes = 1
     /\ svReturn.at >= Len(svValue) * CHAR_DELAY
     /\ svPage.nonFailing => svReturn.at < Len(svValue) * CHAR_DELAY + 500

\* C12: the fallback method runs only after the primary method was attempted
\* and failed, never once the primary method has dispatched a keystroke, and
\* the two methods never both write the value in one call.
C12_FallbackOnlyAfterFailure ==
  /\ (svPc = "fallback" \/ svReturn.path = "fallback" \/ "fallback" \in svPage.writers
        \/ svContext.fallbackSetValueAttempted) =>
       /\ svContext.primarySetValueAttempted
       /\ svPage.keystrokes = 0
       /\ svTimers = {}
       /\ "primary" \notin svPage.writers
  /\ ~({"primary", "fallback"} \subseteq svPage.writers)
C12_Witness ==
  /\ svReturn.how = "resolved"
  /\ svReturn.path = "fallback"
  /\ svPage.writers = {"fallback"}
  /\ svPage.value = svValue
  /\ Len(svValue) = MaxLen

\* C13: outside a Draft.js editor, a newline typed into a textarea adds a
\* line break to its value and submits no form; typed into an input that is
\* not contentEditable it adds nothing to the value and submits the enclosing
\* form once for each Enter keydown that was not prevented.
C13_NewlineByElement ==
  (svPc = "typing" /\ svElement.draft = "none") =>
     /\ svElement.tag = "textarea" =>
          /\ svPage.submits = 0
          /\ svPage.lineBreaks = NewlinesIn(svValue, svPage.typed)
          /\ svPage.value = SubSeq(svValue, 1, svPage.typed)
     /\ (svElement.tag = "input" /\ ~svElement.editable) =>
          /\ ~HasNewline(svPage.value)
          /\ svPage.lineBreaks = 0
          /\ svPage.submits = (IF svElement.form THEN svPage.unprevented ELSE 0)
C13_Witness ==
  /\ svPc = "typing"
  /\ svElement.draft = "none"
  /\ svElement.tag = "input" /\ ~svElement.editable /\ svElement.form
  /\ svPage.submits = 1
  /\ svPage.unprevented = 1
  /\ svPage.typed = MaxLen
  /\ NewlinesIn(svValue, MaxLen) = 2

====
